---------------------------- MODULE Spec2Model ----------------------------
(***************************************************************************)
(* Rotation-representation conversions of the huginn math library: Basis   *)
(* (3x3 matrix), Euler angles, axis-angle and Quaternion.                  *)
(*                                                                         *)
(* Numbers.  The library's float!() is f32.  It is modelled as a signed    *)
(* binary fixed-point number with FracBits fractional bits (the width of   *)
(* the f32 mantissa: the spacing of f32 values in [1, 2)), so the value v  *)
(* is the integer v * 2^FracBits.  Every arithmetic operation rounds to    *)
(* the nearest representable value, symmetrically in sign.  The IEEE       *)
(* special values are kept: NaN, PosInf and NegInf are distinguished       *)
(* values, a finite result beyond MaxFloat overflows to an infinity, and   *)
(* every ordered comparison with NaN is false.                             *)
(*                                                                         *)
(* Vectors are records with fields x, y, z; a Basis is a record of its     *)
(* three rows x, y, z, as in the library.  Component-wise operations are   *)
(* written once, over the field names in Axes.                             *)
(***************************************************************************)
EXTENDS Integers, Sequences, FiniteSets, TLC

FracBits == 23
One == 2 ^ FracBits
MaxFloat == (2 ^ 30) - 1
PosInf == 2 ^ 30
NegInf == -PosInf
NaN == (2 ^ 30) + 7

IsNaN(a) == a = NaN
IsInf(a) == a = PosInf \/ a = NegInf
IsFinite(a) == a # NaN /\ a # PosInf /\ a # NegInf

\* f32 of a small integer.
Int2F(n) == n * One

AbsI(a) == IF a < 0 THEN -a ELSE a
SgnI(a) == IF a < 0 THEN -1 ELSE IF a > 0 THEN 1 ELSE 0

\* Overflow to an infinity.
Overflow(v) == IF v > MaxFloat THEN PosInf ELSE IF v < -MaxFloat THEN NegInf ELSE v

\* Round a quotient q up when the remainder is at least half the divisor.
RoundHalf(p, divisor) == IF 2 * p.rem >= divisor THEN p.q + 1 ELSE p.q

\* ---- exact product of two non-negative fixed-point numbers, split so that
\* no intermediate exceeds the machine integer: a = ah*2^12 + al.
SplitBits == 12
SplitBase == 2 ^ SplitBits
LowBase == 2 ^ (FracBits - SplitBits)

\* floor(a*b / One) and (a*b) mod One for 0 <= a, b and a*b/One <= MaxFloat.
MulParts(a, b) ==
  LET Join(hh, c, r) ==
        [q   |-> hh * 2 + (c \div LowBase),
         rem |-> (c % LowBase) * SplitBase + (r % SplitBase)]
      Carry(hh, m, r) == Join(hh, m + (r \div SplitBase), r)
      Cross(ah, al, bh, bl) == Carry(ah * bh, ah * bl + al * bh, al * bl)
  IN  Cross(a \div SplitBase, a % SplitBase, b \div SplitBase, b % SplitBase)

\* TRUE when a*b/One would exceed MaxFloat (a, b >= 0).
MulOverflows(a, b) ==
  /\ a >= SplitBase
  /\ b >= SplitBase
  /\ (a \div SplitBase) > ((PosInf \div 2) \div (b \div SplitBase))

\* round-to-nearest product of two finite values.
MulI(a, b) ==
  LET Mag(x, y, s) ==
        IF s = 0 THEN 0
        ELSE IF MulOverflows(x, y) THEN s * PosInf
        ELSE Overflow(s * RoundHalf(MulParts(x, y), One))
  IN  Mag(AbsI(a), AbsI(b), SgnI(a) * SgnI(b))

\* ---- binary long division: floor(r*2^k / b) continued from quotient q.
RECURSIVE LongDiv(_, _, _)
LongDiv(s, b, k) ==
  IF k = 0 THEN s
  ELSE IF 2 * s.rem >= b
       THEN LongDiv([q |-> 2 * s.q + 1, rem |-> 2 * s.rem - b], b, k - 1)
       ELSE LongDiv([q |-> 2 * s.q, rem |-> 2 * s.rem], b, k - 1)

\* round-to-nearest quotient of two finite values, b # 0.
DivI(a, b) ==
  LET Mag(x, y, s) ==
        IF s = 0 THEN 0
        ELSE IF (x \div y) >= (PosInf \div One) THEN s * PosInf
        ELSE Overflow(s * RoundHalf(LongDiv([q |-> x \div y, rem |-> x % y],
                                            y, FracBits), y))
  IN  Mag(AbsI(a), AbsI(b), SgnI(a) * SgnI(b))

\* ---- square root of a finite non-negative value: the largest r with
\* r*r <= a*One, found bit by bit.
RECURSIVE SqrtBits(_, _, _)
SqrtBits(a, r, k) ==
  LET Fits(c, p) ==
        ~MulOverflows(c, c) /\ (p.q < a \/ (p.q = a /\ p.rem = 0))
      Step(c) ==
        IF Fits(c, MulParts(c, c)) THEN SqrtBits(a, c, k - 1)
                                   ELSE SqrtBits(a, r, k - 1)
  IN  IF k < 0 THEN r ELSE Step(r + 2 ^ k)

SqrtI(a) == SqrtBits(a, 0, 26)

\* ---- the IEEE operations on float!() values.
FNeg(a) == IF a = NaN THEN NaN ELSE -a
FAbs(a) == IF a = NaN THEN NaN ELSE AbsI(a)

FAdd(a, b) ==
  IF a = NaN \/ b = NaN THEN NaN
  ELSE IF IsInf(a) THEN (IF IsInf(b) /\ b # a THEN NaN ELSE a)
  ELSE IF IsInf(b) THEN b
  ELSE Overflow(a + b)

FSub(a, b) == FAdd(a, FNeg(b))

FMul(a, b) ==
  IF a = NaN \/ b = NaN THEN NaN
  ELSE IF IsInf(a) \/ IsInf(b)
       THEN (IF a = 0 \/ b = 0 THEN NaN ELSE SgnI(a) * SgnI(b) * PosInf)
  ELSE MulI(a, b)

FDiv(a, b) ==
  IF a = NaN \/ b = NaN THEN NaN
  ELSE IF IsInf(a) THEN (IF IsInf(b) THEN NaN
                         ELSE IF b < 0 THEN -a ELSE a)
  ELSE IF IsInf(b) THEN 0
  ELSE IF b = 0 THEN (IF a = 0 THEN NaN ELSE SgnI(a) * PosInf)
  ELSE DivI(a, b)

FSqrt(a) ==
  IF a = NaN \/ a < 0 THEN NaN
  ELSE IF a = PosInf THEN PosInf
  ELSE SqrtI(a)

\* ordered comparisons: false when either side is NaN.
FLt(a, b) == a # NaN /\ b # NaN /\ a < b
FGt(a, b) == a # NaN /\ b # NaN /\ a > b
FLe(a, b) == a # NaN /\ b # NaN /\ a <= b
FGe(a, b) == a # NaN /\ b # NaN /\ a >= b
FEq(a, b) == a # NaN /\ b # NaN /\ a = b

\* ---- float_consts (std::f32::consts), rounded to the model's precision.
PI == 26353589
FRAC_1_SQRT_2 == 5931642
HalfPi == (PI + 1) \div 2
QuarterPi == (PI + 2) \div 4

\* integer division by a small positive integer, rounded to nearest.
DivSmall(a, n) == SgnI(a) * ((AbsI(a) + (n \div 2)) \div n)

\* ---- sin and cos: reduction to [-pi/2, pi/2], then the Taylor series.
\* s.t is the current term, s.acc the sum of the terms before it.
RECURSIVE SinSeries(_, _, _)
SinSeries(s, x2, k) ==
  IF s.t = 0 THEN s.acc
  ELSE SinSeries([t   |-> -DivSmall(MulI(s.t, x2), (2 * k) * (2 * k + 1)),
                  acc |-> s.acc + s.t], x2, k + 1)

RECURSIVE CosSeries(_, _, _)
CosSeries(s, x2, k) ==
  IF s.t = 0 THEN s.acc
  ELSE CosSeries([t   |-> -DivSmall(MulI(s.t, x2), (2 * k - 1) * (2 * k)),
                  acc |-> s.acc + s.t], x2, k + 1)

\* the angle brought into (-pi, pi].
WrapAngle(x) ==
  LET Wrap(r) == IF r > PI THEN r - 2 * PI ELSE r
  IN  Wrap(x % (2 * PI))

Clamp1(v) == IF v > One THEN One ELSE IF v < -One THEN -One ELSE v

\* a.sin()
FSin(a) ==
  LET Series(f) == Clamp1(SinSeries([t |-> f, acc |-> 0], MulI(f, f), 1))
      Fold(r) == IF r > HalfPi THEN PI - r
                 ELSE IF r < -HalfPi THEN (-PI) - r ELSE r
  IN  IF ~IsFinite(a) THEN NaN ELSE Series(Fold(WrapAngle(a)))

\* a.cos()
FCos(a) ==
  LET Series(f) == Clamp1(CosSeries([t |-> One, acc |-> 0], MulI(f, f), 1))
      Fold(r) == (IF r > HalfPi THEN -1 ELSE 1)
                 * Series(IF r > HalfPi THEN PI - r ELSE r)
  IN  IF ~IsFinite(a) THEN NaN ELSE Fold(AbsI(WrapAngle(a)))

\* ---- atan2: atan of the smaller-over-larger ratio by its series, after the
\* reduction atan(t) = pi/4 + atan((t-1)/(t+1)), then the quadrant.
RECURSIVE AtanSeries(_, _, _)
AtanSeries(s, u2, n) ==
  IF s.t = 0 THEN s.acc
  ELSE AtanSeries([t   |-> -MulI(s.t, u2),
                   acc |-> s.acc + DivSmall(s.t, n)], u2, n + 2)

\* tan(pi/8) = sqrt(2) - 1
TanPi8 == 2 * FRAC_1_SQRT_2 - One

\* atan(t) for 0 <= t <= 1.
AtanUnit(t) ==
  LET Series(u) == AtanSeries([t |-> u, acc |-> 0], MulI(u, u), 1)
  IN  (IF t > TanPi8 THEN QuarterPi ELSE 0)
      + Series(IF t > TanPi8 THEN DivI(t - One, t + One) ELSE t)

Atan2I(y, x) ==
  LET Quadrant(base) ==
        IF y < 0 THEN (IF x < 0 THEN base - PI ELSE -base)
                 ELSE (IF x < 0 THEN PI - base ELSE base)
      Complement(below, a) == IF below THEN a ELSE HalfPi - a
      Octant(ax, ay) ==
        IF ax = 0 /\ ay = 0 THEN 0
        ELSE Complement(ay <= ax,
                        AtanUnit(DivI(IF ay <= ax THEN ay ELSE ax,
                                      IF ay <= ax THEN ax ELSE ay)))
  IN  Quadrant(Octant(AbsI(x), AbsI(y)))

\* y.atan2(x)
FAtan2(y, x) ==
  IF y = NaN \/ x = NaN THEN NaN
  ELSE IF IsInf(y)
       THEN SgnI(y) * (IF x = PosInf THEN QuarterPi
                       ELSE IF x = NegInf THEN 3 * QuarterPi ELSE HalfPi)
  ELSE IF x = PosInf THEN 0
  ELSE IF x = NegInf THEN (IF y < 0 THEN -PI ELSE PI)
  ELSE Atan2I(y, x)

\* sqrt(1 - v*v), the other leg of the unit triangle.
Cathetus(v) == SqrtI(One - MulI(v, v))

\* v.asin() and v.acos(): NaN outside [-1, 1].
FAsin(v) ==
  IF v = NaN \/ v > One \/ v < -One THEN NaN
  ELSE Atan2I(v, Cathetus(v))

FAcos(v) ==
  IF v = NaN \/ v > One \/ v < -One THEN NaN
  ELSE Atan2I(Cathetus(v), v)

\* ===================== utils.rs =====================
CMP_EPSILON == 84
UNIT_EPSILON == 84

\* s.abs() < CMP_EPSILON
is_zero_approx(s) == FLt(FAbs(s), CMP_EPSILON)

is_equal_approx(a, b) ==
  LET Tolerance(t) == IF FLt(t, CMP_EPSILON) THEN CMP_EPSILON ELSE t
  IN  IF FEq(a, b) THEN TRUE
      ELSE FLt(FAbs(FSub(a, b)), Tolerance(FMul(CMP_EPSILON, FAbs(a))))

is_equal_approx_with_tolerance(a, b, tolerance) ==
  IF FEq(a, b) THEN TRUE
  ELSE FLt(FAbs(FSub(a, b)), tolerance)

\* (mutant: the arc cosine is taken without saturation)
safe_acos_Unclamped(v) == FAcos(v)

safe_acos(v) ==
  IF FLt(v, -One) THEN PI
  ELSE IF FGt(v, One) THEN 0
  ELSE FAcos(v)

\* ===================== Vector3 =====================
Axes == {"x", "y", "z"}

Vec3(x, y, z) == [x |-> x, y |-> y, z |-> z]

ZeroVec == Vec3(0, 0, 0)

\* p.x + p.y + p.z, added left to right
Sum3(p) == FAdd(FAdd(p.x, p.y), p.z)

\* a * b, component by component
VMul(a, b) == [k \in Axes |-> FMul(a[k], b[k])]

VDot(a, b) == Sum3(VMul(a, b))
VLengthSquared(a) == Sum3(VMul(a, a))
VLength(a) == FSqrt(VLengthSquared(a))
VSub(a, b) == [k \in Axes |-> FSub(a[k], b[k])]
VScale(a, s) == [k \in Axes |-> FMul(a[k], s)]
VDivF(a, s) == [k \in Axes |-> FDiv(a[k], s)]

\* the component with a numeric index
AxisOf(index) == IF index = 0 THEN "x" ELSE IF index = 1 THEN "y" ELSE "z"

\* v.get(index)
VGet(a, index) == a[AxisOf(index)]

VNormalized(a) ==
  LET Unit(length_sq) ==
        IF FEq(length_sq, 0) THEN ZeroVec
        ELSE VDivF(a, FSqrt(length_sq))
  IN  Unit(VLengthSquared(a))

VIsFinite(a) == \A k \in Axes : IsFinite(a[k])

\* ===================== Basis =====================
\* x, y, z are the ROWS of the matrix.
new_from_floats(xx, xy, xz, yx, yy, yz, zx, zy, zz) ==
  [x |-> Vec3(xx, xy, xz), y |-> Vec3(yx, yy, yz), z |-> Vec3(zx, zy, zz)]

\* the three COLUMNS become the matrix
set_columns(c1, c2, c3) == [r \in Axes |-> Vec3(c1[r], c2[r], c3[r])]

\* Basis::new takes the three COLUMNS.
BasisNew(cx, cy, cz) == set_columns(cx, cy, cz)

IDENTITY == new_from_floats(One, 0, 0, 0, One, 0, 0, 0, One)

get_row(b, index) == b[AxisOf(index)]

\* the column named c
Column(b, c) == [r \in Axes |-> b[r][c]]

get_column(b, index) == Column(b, AxisOf(index))

\* t_dot_x, t_dot_y, t_dot_z: the dot product of column c with w
t_dot(b, c, w) == VDot(Column(b, c), w)

\* a * b
BasisMul(a, b) == [r \in Axes |-> [c \in Axes |-> t_dot(b, c, a[r])]]

determinant(b) ==
  FAdd(FSub(FMul(b.x.x, FSub(FMul(b.y.y, b.z.z), FMul(b.z.y, b.y.z))),
            FMul(b.y.x, FSub(FMul(b.x.y, b.z.z), FMul(b.z.y, b.x.z)))),
       FMul(b.z.x, FSub(FMul(b.x.y, b.y.z), FMul(b.y.y, b.x.z))))

\* cofac!(row1, col1, row2, col2)
cofac(b, row1, col1, row2, col2) ==
  FSub(FMul(b[row1][col1], b[row2][col2]), FMul(b[row1][col2], b[row2][col1]))

inverse(b) ==
  LET Det(co) ==
        FAdd(FAdd(FMul(b.x.x, co.x.x), FMul(b.x.y, co.y.x)), FMul(b.x.z, co.z.x))
      Times(co, s) == [r \in Axes |-> [c \in Axes |-> FMul(co[r][c], s)]]
      Invert(co) == Times(co, FDiv(One, Det(co)))
  IN  Invert(new_from_floats(
        cofac(b, "y", "y", "z", "z"),
        cofac(b, "x", "z", "z", "y"),
        cofac(b, "x", "y", "y", "z"),
        cofac(b, "y", "z", "z", "x"),
        cofac(b, "x", "x", "z", "z"),
        cofac(b, "x", "z", "y", "x"),
        cofac(b, "y", "x", "z", "y"),
        cofac(b, "x", "y", "z", "x"),
        cofac(b, "x", "x", "y", "y")))

\* ---- Euler codec
EulerOrders == {"XYZ", "XZY", "YXZ", "YZX", "ZXY", "ZYX"}

\* (mutant: ZXY multiplies in the order of ZYX)
set_euler_ZXYAsZYX(euler, order) ==
  LET RotX(c, s) == new_from_floats(One, 0, 0, 0, c, FNeg(s), 0, s, c)
      RotY(c, s) == new_from_floats(c, 0, s, 0, One, 0, FNeg(s), 0, c)
      RotZ(c, s) == new_from_floats(c, FNeg(s), 0, s, c, 0, 0, 0, One)
      Compose(x_mat, y_mat, z_mat) ==
        CASE order = "XYZ" -> BasisMul(x_mat, BasisMul(y_mat, z_mat))
          [] order = "XZY" -> BasisMul(BasisMul(x_mat, z_mat), y_mat)
          [] order = "YXZ" -> BasisMul(BasisMul(y_mat, x_mat), z_mat)
          [] order = "YZX" -> BasisMul(BasisMul(y_mat, z_mat), x_mat)
          [] order = "ZXY" -> BasisMul(BasisMul(z_mat, y_mat), x_mat)
          [] order = "ZYX" -> BasisMul(BasisMul(z_mat, y_mat), x_mat)
  IN  Compose(RotX(FCos(euler.x), FSin(euler.x)),
              RotY(FCos(euler.y), FSin(euler.y)),
              RotZ(FCos(euler.z), FSin(euler.z)))

set_euler(euler, order) ==
  LET RotX(c, s) == new_from_floats(One, 0, 0, 0, c, FNeg(s), 0, s, c)
      RotY(c, s) == new_from_floats(c, 0, s, 0, One, 0, FNeg(s), 0, c)
      RotZ(c, s) == new_from_floats(c, FNeg(s), 0, s, c, 0, 0, 0, One)
      Compose(x_mat, y_mat, z_mat) ==
        CASE order = "XYZ" -> BasisMul(x_mat, BasisMul(y_mat, z_mat))
          [] order = "XZY" -> BasisMul(BasisMul(x_mat, z_mat), y_mat)
          [] order = "YXZ" -> BasisMul(BasisMul(y_mat, x_mat), z_mat)
          [] order = "YZX" -> BasisMul(BasisMul(y_mat, z_mat), x_mat)
          [] order = "ZXY" -> BasisMul(BasisMul(z_mat, x_mat), y_mat)
          [] order = "ZYX" -> BasisMul(BasisMul(z_mat, y_mat), x_mat)
  IN  Compose(RotX(FCos(euler.x), FSin(euler.x)),
              RotY(FCos(euler.y), FSin(euler.y)),
              RotZ(FCos(euler.z), FSin(euler.z)))

\* (mutant: the order taken for None is XYZ)
from_euler_DefaultXYZ(euler, order) ==
  set_euler(euler, IF order # "None" THEN order ELSE "XYZ")

\* order is "None" or one of the six EulerOrders (Option<EulerOrder>)
from_euler(euler, order) ==
  set_euler(euler, IF order # "None" THEN order ELSE "YXZ")

\* 1.0 - CMP_EPSILON
GimbalLimit == One - CMP_EPSILON

\* (mutant: a pure rotation about Y goes through the general formula)
get_euler_XYZ_NoPureCase(b) ==
  IF FLt(b.x.z, GimbalLimit)
  THEN IF FGt(b.x.z, -GimbalLimit)
       THEN Vec3(FAtan2(FNeg(b.y.z), b.z.z),
                 FAsin(b.x.z),
                 FAtan2(FNeg(b.x.y), b.x.x))
       ELSE Vec3(FAtan2(b.z.y, b.y.y), -HalfPi, 0)
  ELSE Vec3(FAtan2(b.z.y, b.y.y), HalfPi, 0)

\* In get_euler, PI / 2.0 is HalfPi and -PI / 2.0 is -HalfPi.
get_euler_XYZ(b) ==
  IF FLt(b.x.z, GimbalLimit)
  THEN IF FGt(b.x.z, -GimbalLimit)
       THEN IF FEq(b.y.x, 0) /\ FEq(b.x.y, 0) /\ FEq(b.y.z, 0)
               /\ FEq(b.z.y, 0) /\ FEq(b.y.y, One)
            THEN Vec3(0, FAtan2(b.x.z, b.x.x), 0)
            ELSE Vec3(FAtan2(FNeg(b.y.z), b.z.z),
                      FAsin(b.x.z),
                      FAtan2(FNeg(b.x.y), b.x.x))
       ELSE Vec3(FAtan2(b.z.y, b.y.y), -HalfPi, 0)
  ELSE Vec3(FAtan2(b.z.y, b.y.y), HalfPi, 0)

get_euler_XZY(b) ==
  IF FLt(b.x.y, GimbalLimit)
  THEN IF FGt(b.x.y, -GimbalLimit)
       THEN Vec3(FAtan2(b.z.y, b.y.y),
                 FAtan2(b.x.z, b.x.x),
                 FAsin(FNeg(b.x.y)))
       ELSE Vec3(FNeg(FAtan2(b.y.z, b.z.z)), 0, HalfPi)
  ELSE Vec3(FNeg(FAtan2(b.y.z, b.z.z)), 0, -HalfPi)

\* (mutant: the +1 gimbal branch loses the negation of its recovered angle)
get_euler_YXZ_SignSlip(b) ==
  IF FLt(b.y.z, GimbalLimit)
  THEN IF FGt(b.y.z, -GimbalLimit)
       THEN IF FEq(b.y.x, 0) /\ FEq(b.x.y, 0) /\ FEq(b.x.z, 0)
               /\ FEq(b.z.x, 0) /\ FEq(b.x.x, One)
            THEN Vec3(FAtan2(FNeg(b.y.z), b.y.y), 0, 0)
            ELSE Vec3(FAsin(FNeg(b.y.z)),
                      FAtan2(b.x.z, b.z.z),
                      FAtan2(b.y.x, b.y.y))
       ELSE Vec3(HalfPi, FAtan2(b.x.y, b.x.x), 0)
  ELSE Vec3(-HalfPi, FAtan2(b.x.y, b.x.x), 0)

get_euler_YXZ(b) ==
  IF FLt(b.y.z, GimbalLimit)
  THEN IF FGt(b.y.z, -GimbalLimit)
       THEN IF FEq(b.y.x, 0) /\ FEq(b.x.y, 0) /\ FEq(b.x.z, 0)
               /\ FEq(b.z.x, 0) /\ FEq(b.x.x, One)
            THEN Vec3(FAtan2(FNeg(b.y.z), b.y.y), 0, 0)
            ELSE Vec3(FAsin(FNeg(b.y.z)),
                      FAtan2(b.x.z, b.z.z),
                      FAtan2(b.y.x, b.y.y))
       ELSE Vec3(HalfPi, FAtan2(b.x.y, b.x.x), 0)
  ELSE Vec3(-HalfPi, FNeg(FAtan2(b.x.y, b.x.x)), 0)

get_euler_YZX(b) ==
  IF FLt(b.y.x, GimbalLimit)
  THEN IF FGt(b.y.x, -GimbalLimit)
       THEN Vec3(FAtan2(FNeg(b.y.z), b.y.y),
                 FAtan2(FNeg(b.z.x), b.x.x),
                 FAsin(b.y.x))
       ELSE Vec3(FAtan2(b.z.y, b.z.z), 0, -HalfPi)
  ELSE Vec3(FAtan2(b.z.y, b.z.z), 0, HalfPi)

\* (mutant: the -90 degrees branch negates the recovered angle)
get_euler_ZXY_NegatedBranch(b) ==
  IF FLt(b.z.y, GimbalLimit)
  THEN IF FGt(b.z.y, -GimbalLimit)
       THEN Vec3(FAsin(b.z.y),
                 FAtan2(FNeg(b.z.x), b.z.z),
                 FAtan2(FNeg(b.x.y), b.y.y))
       ELSE Vec3(-HalfPi, FNeg(FAtan2(b.x.z, b.x.x)), 0)
  ELSE Vec3(HalfPi, FAtan2(b.x.z, b.x.x), 0)

get_euler_ZXY(b) ==
  IF FLt(b.z.y, GimbalLimit)
  THEN IF FGt(b.z.y, -GimbalLimit)
       THEN Vec3(FAsin(b.z.y),
                 FAtan2(FNeg(b.z.x), b.z.z),
                 FAtan2(FNeg(b.x.y), b.y.y))
       ELSE Vec3(-HalfPi, FAtan2(b.x.z, b.x.x), 0)
  ELSE Vec3(HalfPi, FAtan2(b.x.z, b.x.x), 0)

\* (mutant: gimbal lock is detected at exactly 1 and -1)
get_euler_ZYX_ExactOne(b) ==
  IF FLt(b.z.x, One)
  THEN IF FGt(b.z.x, -One)
       THEN Vec3(FAtan2(b.z.y, b.z.z),
                 FAsin(FNeg(b.z.x)),
                 FAtan2(b.y.x, b.x.x))
       ELSE Vec3(0, HalfPi, FNeg(FAtan2(b.x.y, b.y.y)))
  ELSE Vec3(0, -HalfPi, FNeg(FAtan2(b.x.y, b.y.y)))

get_euler_ZYX(b) ==
  IF FLt(b.z.x, GimbalLimit)
  THEN IF FGt(b.z.x, -GimbalLimit)
       THEN Vec3(FAtan2(b.z.y, b.z.z),
                 FAsin(FNeg(b.z.x)),
                 FAtan2(b.y.x, b.x.x))
       ELSE Vec3(0, HalfPi, FNeg(FAtan2(b.x.y, b.y.y)))
  ELSE Vec3(0, -HalfPi, FNeg(FAtan2(b.x.y, b.y.y)))

\* the match on the order, after the Option's default
get_euler(b, order) ==
  LET Ordered(o) ==
        CASE o = "XYZ" -> get_euler_XYZ(b)
          [] o = "XZY" -> get_euler_XZY(b)
          [] o = "YXZ" -> get_euler_YXZ(b)
          [] o = "YZX" -> get_euler_YZX(b)
          [] o = "ZXY" -> get_euler_ZXY(b)
          [] o = "ZYX" -> get_euler_ZYX(b)
  IN  Ordered(IF order # "None" THEN order ELSE "YXZ")

\* ===================== Quaternion =====================
QAxes == {"x", "y", "z", "w"}

Quat(x, y, z, w) == [x |-> x, y |-> y, z |-> z, w |-> w]

QDot(a, b) ==
  LET Sum4(p) == FAdd(FAdd(FAdd(p.x, p.y), p.z), p.w)
  IN  Sum4([k \in QAxes |-> FMul(a[k], b[k])])
QLengthSquared(a) == QDot(a, a)
QLength(a) == FSqrt(QLengthSquared(a))
QNeg(a) == [k \in QAxes |-> FNeg(a[k])]
QInverse(a) == Quat(FNeg(a.x), FNeg(a.y), FNeg(a.z), a.w)

\* lhs * rhs
QMul(lhs, rhs) ==
  Quat(FSub(FAdd(FAdd(FMul(lhs.w, rhs.x), FMul(lhs.x, rhs.w)), FMul(lhs.y, rhs.z)),
            FMul(lhs.z, rhs.y)),
       FSub(FAdd(FAdd(FMul(lhs.w, rhs.y), FMul(lhs.y, rhs.w)), FMul(lhs.z, rhs.x)),
            FMul(lhs.x, rhs.z)),
       FSub(FAdd(FAdd(FMul(lhs.w, rhs.z), FMul(lhs.z, rhs.w)), FMul(lhs.x, rhs.y)),
            FMul(lhs.y, rhs.x)),
       FSub(FSub(FSub(FMul(lhs.w, rhs.w), FMul(lhs.x, rhs.x)), FMul(lhs.y, rhs.y)),
            FMul(lhs.z, rhs.z)))

\* (mutant: the z component adds the product of the two sines)
quat_from_half_angles_SignSlip(cos_a1, sin_a1, cos_a2, sin_a2, cos_a3, sin_a3) ==
  Quat(FAdd(FMul(FMul(sin_a1, cos_a2), sin_a3),
            FMul(FMul(cos_a1, sin_a2), cos_a3)),
       FSub(FMul(FMul(sin_a1, cos_a2), cos_a3),
            FMul(FMul(cos_a1, sin_a2), sin_a3)),
       FAdd(FMul(FMul(sin_a1, sin_a2), cos_a3),
            FMul(FMul(cos_a1, cos_a2), sin_a3)),
       FAdd(FMul(FMul(sin_a1, sin_a2), sin_a3),
            FMul(FMul(cos_a1, cos_a2), cos_a3)))

\* the Quaternion::new(..) that ends Quaternion::from_euler
quat_from_half_angles(cos_a1, sin_a1, cos_a2, sin_a2, cos_a3, sin_a3) ==
  Quat(FAdd(FMul(FMul(sin_a1, cos_a2), sin_a3),
            FMul(FMul(cos_a1, sin_a2), cos_a3)),
       FSub(FMul(FMul(sin_a1, cos_a2), cos_a3),
            FMul(FMul(cos_a1, sin_a2), sin_a3)),
       FAdd(FMul(FMul(FNeg(sin_a1), sin_a2), cos_a3),
            FMul(FMul(cos_a1, cos_a2), sin_a3)),
       FAdd(FMul(FMul(sin_a1, sin_a2), sin_a3),
            FMul(FMul(cos_a1, cos_a2), cos_a3)))

\* Quaternion::from_euler (always YXZ)
quat_from_euler(euler) ==
  LET Halves(half_a1, half_a2, half_a3) ==
        quat_from_half_angles(FCos(half_a1), FSin(half_a1), FCos(half_a2),
                              FSin(half_a2), FCos(half_a3), FSin(half_a3))
  IN  Halves(FDiv(euler.y, Int2F(2)), FDiv(euler.x, Int2F(2)),
             FDiv(euler.z, Int2F(2)))

\* (mutant: the products are scaled by 2, not by 2 / |q|^2)
set_quaternion_NoPrescale(quaternion) ==
  LET Fill(wx, wy, wz, xx, xy, xz, yy, yz, zz) ==
        new_from_floats(FSub(One, FAdd(yy, zz)), FSub(xy, wz), FAdd(xz, wy),
                        FAdd(xy, wz), FSub(One, FAdd(xx, zz)), FSub(yz, wx),
                        FSub(xz, wy), FAdd(yz, wx), FSub(One, FAdd(xx, yy)))
      Products(xs, ys, zs) ==
        Fill(FMul(quaternion.w, xs), FMul(quaternion.w, ys),
             FMul(quaternion.w, zs), FMul(quaternion.x, xs),
             FMul(quaternion.x, ys), FMul(quaternion.x, zs),
             FMul(quaternion.y, ys), FMul(quaternion.y, zs),
             FMul(quaternion.z, zs))
      Scaled(s) ==
        Products(FMul(quaternion.x, s), FMul(quaternion.y, s),
                 FMul(quaternion.z, s))
  IN  Scaled(Int2F(2))

\* Basis::from(&Quaternion)
set_quaternion(quaternion) ==
  LET Fill(wx, wy, wz, xx, xy, xz, yy, yz, zz) ==
        new_from_floats(FSub(One, FAdd(yy, zz)), FSub(xy, wz), FAdd(xz, wy),
                        FAdd(xy, wz), FSub(One, FAdd(xx, zz)), FSub(yz, wx),
                        FSub(xz, wy), FAdd(yz, wx), FSub(One, FAdd(xx, yy)))
      Products(xs, ys, zs) ==
        Fill(FMul(quaternion.w, xs), FMul(quaternion.w, ys),
             FMul(quaternion.w, zs), FMul(quaternion.x, xs),
             FMul(quaternion.x, ys), FMul(quaternion.x, zs),
             FMul(quaternion.y, ys), FMul(quaternion.y, zs),
             FMul(quaternion.z, zs))
      Scaled(s) ==
        Products(FMul(quaternion.x, s), FMul(quaternion.y, s),
                 FMul(quaternion.z, s))
  IN  Scaled(FDiv(Int2F(2), QLengthSquared(quaternion)))

\* Quaternion::get_euler
quat_get_euler(q, order) ==
  get_euler(set_quaternion(q), IF order # "None" THEN order ELSE "YXZ")

\* ---- scale
\* Basis::from_scale
from_scale(scale) ==
  new_from_floats(scale.x, 0, 0, 0, scale.y, 0, 0, 0, scale.z)

\* m.scale(&scale): row r times scale.r
scale(m, s) == [r \in Axes |-> VScale(m[r], s[r])]

scaled(b, s) == scale(b, s)

\* ---- orthonormalization
orthonormalize(b) ==
  LET StepZ(x, y) ==
        set_columns(x, y,
          VNormalized(VSub(VSub(Column(b, "z"),
                                VScale(x, VDot(x, Column(b, "z")))),
                           VScale(y, VDot(y, Column(b, "z"))))))
      StepY(x) ==
        StepZ(x, VNormalized(VSub(Column(b, "y"),
                                  VScale(x, VDot(x, Column(b, "y"))))))
  IN  StepY(VNormalized(Column(b, "x")))

\* (mutant: the Gram-Schmidt pass starts from z and ends with x)
orthonormalized_ZFirst(b) ==
  LET StepX(z, y) ==
        set_columns(
          VNormalized(VSub(VSub(Column(b, "x"),
                                VScale(z, VDot(z, Column(b, "x")))),
                           VScale(y, VDot(y, Column(b, "x"))))),
          y, z)
      StepY(z) ==
        StepX(z, VNormalized(VSub(Column(b, "y"),
                                  VScale(z, VDot(z, Column(b, "y"))))))
  IN  StepY(VNormalized(Column(b, "z")))

\* let mut c = *self; c.orthonormalize(); c
orthonormalized(b) == orthonormalize(b)

\* ---- predicates
is_diagonal(b) ==
  /\ is_zero_approx(b.x.y) /\ is_zero_approx(b.x.z)
  /\ is_zero_approx(b.y.x) /\ is_zero_approx(b.y.z)
  /\ is_zero_approx(b.z.x) /\ is_zero_approx(b.z.y)

is_orthogonal(b) ==
  LET Test(x, y, z) ==
        /\ is_zero_approx(VDot(x, y))
        /\ is_zero_approx(VDot(x, z))
        /\ is_zero_approx(VDot(y, z))
  IN  Test(Column(b, "x"), Column(b, "y"), Column(b, "z"))

is_orthonormal(b) ==
  LET Test(x, y, z) ==
        /\ is_equal_approx(VLengthSquared(x), One)
        /\ is_equal_approx(VLengthSquared(y), One)
        /\ is_equal_approx(VLengthSquared(z), One)
        /\ is_zero_approx(VDot(x, y))
        /\ is_zero_approx(VDot(x, z))
        /\ is_zero_approx(VDot(y, z))
  IN  Test(Column(b, "x"), Column(b, "y"), Column(b, "z"))

\* (mutant: the axes must have length 1, not just a common length)
is_conformal_UnitOnly(b) == is_orthonormal(b)

is_conformal(b) ==
  LET Lengths(x, y, z, x_len_sq) ==
        /\ is_equal_approx(x_len_sq, VLengthSquared(y))
        /\ is_equal_approx(x_len_sq, VLengthSquared(z))
        /\ is_zero_approx(VDot(x, y))
        /\ is_zero_approx(VDot(x, z))
        /\ is_zero_approx(VDot(y, z))
      Test(x, y, z) == Lengths(x, y, z, VLengthSquared(x))
  IN  Test(get_column(b, 0), get_column(b, 1), get_column(b, 2))

is_rotation(b) ==
  is_conformal(b) /\ is_equal_approx_with_tolerance(determinant(b), One, UNIT_EPSILON)

\* ---- axis and angle
\* (mutant: on a tie the first of the tied terms is taken as the largest)
singular_axis_TieToFirst(b) ==
  LET RootX(x, xy, xz) == Vec3(x, FDiv(xy, x), FDiv(xz, x))
      RootY(y, xy, yz) == Vec3(FDiv(xy, y), y, FDiv(yz, y))
      RootZ(z, xz, yz) == Vec3(FDiv(xz, z), FDiv(yz, z), z)
      Pick(xx, yy, zz, xy, xz, yz) ==
        IF FGe(xx, yy) /\ FGe(xx, zz)
        THEN IF FLt(xx, CMP_EPSILON)
             THEN Vec3(0, FRAC_1_SQRT_2, FRAC_1_SQRT_2)
             ELSE RootX(FSqrt(xx), xy, xz)
        ELSE IF FGe(yy, zz)
        THEN IF FLt(yy, CMP_EPSILON)
             THEN Vec3(FRAC_1_SQRT_2, 0, FRAC_1_SQRT_2)
             ELSE RootY(FSqrt(yy), xy, yz)
        ELSE IF FLt(zz, CMP_EPSILON)
             THEN Vec3(FRAC_1_SQRT_2, FRAC_1_SQRT_2, 0)
             ELSE RootZ(FSqrt(zz), xz, yz)
  IN  Pick(FDiv(FAdd(b.x.x, One), Int2F(2)),
           FDiv(FAdd(b.y.y, One), Int2F(2)),
           FDiv(FAdd(b.z.z, One), Int2F(2)),
           FDiv(FAdd(b.x.y, b.y.x), Int2F(4)),
           FDiv(FAdd(b.x.z, b.z.x), Int2F(4)),
           FDiv(FAdd(b.y.z, b.z.y), Int2F(4)))

\* (mutant: the root is always taken, however small the largest term)
singular_axis_NoFallback(b) ==
  LET RootX(x, xy, xz) == Vec3(x, FDiv(xy, x), FDiv(xz, x))
      RootY(y, xy, yz) == Vec3(FDiv(xy, y), y, FDiv(yz, y))
      RootZ(z, xz, yz) == Vec3(FDiv(xz, z), FDiv(yz, z), z)
      Pick(xx, yy, zz, xy, xz, yz) ==
        IF FGt(xx, yy) /\ FGt(xx, zz)
        THEN IF FALSE
             THEN Vec3(0, FRAC_1_SQRT_2, FRAC_1_SQRT_2)
             ELSE RootX(FSqrt(xx), xy, xz)
        ELSE IF FGt(yy, zz)
        THEN IF FALSE
             THEN Vec3(FRAC_1_SQRT_2, 0, FRAC_1_SQRT_2)
             ELSE RootY(FSqrt(yy), xy, yz)
        ELSE IF FALSE
             THEN Vec3(FRAC_1_SQRT_2, FRAC_1_SQRT_2, 0)
             ELSE RootZ(FSqrt(zz), xz, yz)
  IN  Pick(FDiv(FAdd(b.x.x, One), Int2F(2)),
           FDiv(FAdd(b.y.y, One), Int2F(2)),
           FDiv(FAdd(b.z.z, One), Int2F(2)),
           FDiv(FAdd(b.x.y, b.y.x), Int2F(4)),
           FDiv(FAdd(b.x.z, b.z.x), Int2F(4)),
           FDiv(FAdd(b.y.z, b.z.y), Int2F(4)))

\* the axis of the angle-pi singularity
singular_axis(b) ==
  LET RootX(x, xy, xz) == Vec3(x, FDiv(xy, x), FDiv(xz, x))
      RootY(y, xy, yz) == Vec3(FDiv(xy, y), y, FDiv(yz, y))
      RootZ(z, xz, yz) == Vec3(FDiv(xz, z), FDiv(yz, z), z)
      Pick(xx, yy, zz, xy, xz, yz) ==
        IF FGt(xx, yy) /\ FGt(xx, zz)
        THEN IF FLt(xx, CMP_EPSILON)
             THEN Vec3(0, FRAC_1_SQRT_2, FRAC_1_SQRT_2)
             ELSE RootX(FSqrt(xx), xy, xz)
        ELSE IF FGt(yy, zz)
        THEN IF FLt(yy, CMP_EPSILON)
             THEN Vec3(FRAC_1_SQRT_2, 0, FRAC_1_SQRT_2)
             ELSE RootY(FSqrt(yy), xy, yz)
        ELSE IF FLt(zz, CMP_EPSILON)
             THEN Vec3(FRAC_1_SQRT_2, FRAC_1_SQRT_2, 0)
             ELSE RootZ(FSqrt(zz), xz, yz)
  IN  Pick(FDiv(FAdd(b.x.x, One), Int2F(2)),
           FDiv(FAdd(b.y.y, One), Int2F(2)),
           FDiv(FAdd(b.z.z, One), Int2F(2)),
           FDiv(FAdd(b.x.y, b.y.x), Int2F(4)),
           FDiv(FAdd(b.x.z, b.z.x), Int2F(4)),
           FDiv(FAdd(b.y.z, b.z.y), Int2F(4)))

\* (mutant: a divisor below CMP_EPSILON is raised to CMP_EPSILON)
regular_axis_ClampToEpsilon(b) ==
  LET Normalize(d, s) ==
        VDivF(d, IF FLt(FAbs(s), CMP_EPSILON) THEN CMP_EPSILON ELSE s)
      Difference(d) == Normalize(d, FSqrt(Sum3(VMul(d, d))))
  IN  Difference(Vec3(FSub(b.z.y, b.y.z), FSub(b.x.z, b.z.x), FSub(b.y.x, b.x.y)))

\* the axis away from the singularities
regular_axis(b) ==
  LET Normalize(d, s) ==
        VDivF(d, IF FLt(FAbs(s), CMP_EPSILON) THEN One ELSE s)
      Difference(d) == Normalize(d, FSqrt(Sum3(VMul(d, d))))
  IN  Difference(Vec3(FSub(b.z.y, b.y.z), FSub(b.x.z, b.z.x), FSub(b.y.x, b.x.y)))

\* (mutant: the identity test looks at the trace only)
get_axis_angle_branch_TraceOnly(b) ==
  IF /\ is_zero_approx(FSub(b.x.y, b.y.x))
     /\ is_zero_approx(FSub(b.x.z, b.z.x))
     /\ is_zero_approx(FSub(b.y.z, b.z.y))
  THEN IF FLt(FAbs(FSub(Sum3(Vec3(b.x.x, b.y.y, b.z.z)), Int2F(3))),
              FMul(Int2F(3), CMP_EPSILON))
       THEN "identity"
       ELSE "pi"
  ELSE "regular"

\* the branch get_axis_angle takes: "identity", "pi" or "regular"
get_axis_angle_branch(b) ==
  IF /\ is_zero_approx(FSub(b.x.y, b.y.x))
     /\ is_zero_approx(FSub(b.x.z, b.z.x))
     /\ is_zero_approx(FSub(b.y.z, b.z.y))
  THEN IF /\ is_diagonal(b)
          /\ FLt(FAbs(FSub(Sum3(Vec3(b.x.x, b.y.y, b.z.z)), Int2F(3))),
                 FMul(Int2F(3), CMP_EPSILON))
       THEN "identity"
       ELSE "pi"
  ELSE "regular"

\* the out-parameters axis and angle, with the branch taken
get_axis_angle(b) ==
  LET Result(branch) ==
        CASE branch = "identity" ->
               [axis |-> Vec3(0, One, 0), angle |-> 0, branch |-> branch]
          [] branch = "pi" ->
               [axis |-> singular_axis(b), angle |-> PI, branch |-> branch]
          [] branch = "regular" ->
               [axis   |-> regular_axis(b),
                angle  |-> safe_acos(FDiv(FSub(Sum3(Vec3(b.x.x, b.y.y, b.z.z)), One),
                                          Int2F(2))),
                branch |-> branch]
  IN  Result(get_axis_angle_branch(b))

\* ---- quaternion of a Basis
Half == One \div 2

\* (mutant: j and k are taken in the other order)
get_quaternion_SwappedJK(m) ==
  LET E(r, c) == VGet(get_row(m, r), c)
      Pack(t) == Quat(t[0], t[1], t[2], t[3])
      Positive(s) ==
        LET Rest(s2) ==
              Quat(FMul(FSub(m.z.y, m.y.z), s2),
                   FMul(FSub(m.x.z, m.z.x), s2),
                   FMul(FSub(m.y.x, m.x.y), s2),
                   FMul(s, Half))
        IN  Rest(FDiv(Half, s))
      Largest(i, j, k) ==
        LET Fill(s, s2) ==
              Pack([n \in 0..3 |->
                      IF n = i THEN FMul(s, Half)
                      ELSE IF n = 3 THEN FMul(FSub(E(k, j), E(j, k)), s2)
                      ELSE IF n = j THEN FMul(FAdd(E(j, i), E(i, j)), s2)
                      ELSE FMul(FAdd(E(k, i), E(i, k)), s2)])
            Root(s) == Fill(s, FDiv(Half, s))
        IN  Root(FSqrt(FAdd(FSub(FSub(E(i, i), E(j, j)), E(k, k)), One)))
      Index(i) == Largest(i, (i + 2) % 3, (i + 1) % 3)
      Trace(trace) ==
        IF FGt(trace, 0)
        THEN Positive(FSqrt(FAdd(trace, One)))
        ELSE Index(IF FLt(m.x.x, m.y.y)
                   THEN (IF FLt(m.y.y, m.z.z) THEN 2 ELSE 1)
                   ELSE IF FLt(m.x.x, m.z.z) THEN 2 ELSE 0)
  IN  Trace(Sum3(Vec3(m.x.x, m.y.y, m.z.z)))

get_quaternion(m) ==
  LET E(r, c) == VGet(get_row(m, r), c)
      Pack(t) == Quat(t[0], t[1], t[2], t[3])
      Positive(s) ==
        LET Rest(s2) ==
              Quat(FMul(FSub(m.z.y, m.y.z), s2),
                   FMul(FSub(m.x.z, m.z.x), s2),
                   FMul(FSub(m.y.x, m.x.y), s2),
                   FMul(s, Half))
        IN  Rest(FDiv(Half, s))
      Largest(i, j, k) ==
        LET Fill(s, s2) ==
              Pack([n \in 0..3 |->
                      IF n = i THEN FMul(s, Half)
                      ELSE IF n = 3 THEN FMul(FSub(E(k, j), E(j, k)), s2)
                      ELSE IF n = j THEN FMul(FAdd(E(j, i), E(i, j)), s2)
                      ELSE FMul(FAdd(E(k, i), E(i, k)), s2)])
            Root(s) == Fill(s, FDiv(Half, s))
        IN  Root(FSqrt(FAdd(FSub(FSub(E(i, i), E(j, j)), E(k, k)), One)))
      Index(i) == Largest(i, (i + 1) % 3, (i + 2) % 3)
      Trace(trace) ==
        IF FGt(trace, 0)
        THEN Positive(FSqrt(FAdd(trace, One)))
        ELSE Index(IF FLt(m.x.x, m.y.y)
                   THEN (IF FLt(m.y.y, m.z.z) THEN 2 ELSE 1)
                   ELSE IF FLt(m.x.x, m.z.z) THEN 2 ELSE 0)
  IN  Trace(Sum3(Vec3(m.x.x, m.y.y, m.z.z)))

\* (mutant: the reflection is not removed)
get_rotation_quaternion_m_KeepFlip(b) == orthonormalized(b)

\* the local m of get_rotation_quaternion when it calls get_quaternion
get_rotation_quaternion_m(b) ==
  LET Proper(m) ==
        IF FLt(determinant(m), 0)
        THEN scale(m, Vec3(-One, -One, -One))
        ELSE m
  IN  Proper(orthonormalized(b))

get_rotation_quaternion(b) == get_quaternion(get_rotation_quaternion_m(b))


\* ---- constructors
\* impl From<&Basis> for Quaternion
quaternion_from_basis(b) == get_quaternion(b)

\* (mutant: the axis is divided by its length before it is used)
set_axis_angle_Normalizing(axis, angle) ==
  LET Fill(a, cosine, sine) ==
        LET T(t) ==
              new_from_floats(
                FAdd(FMul(a.x, a.x), FMul(cosine, FSub(One, FMul(a.x, a.x)))),
                FSub(FMul(FMul(a.x, a.y), t), FMul(a.z, sine)),
                FAdd(FMul(FMul(a.x, a.z), t), FMul(a.y, sine)),
                FAdd(FMul(FMul(a.x, a.y), t), FMul(a.z, sine)),
                FAdd(FMul(a.y, a.y), FMul(cosine, FSub(One, FMul(a.y, a.y)))),
                FSub(FMul(FMul(a.y, a.z), t), FMul(a.x, sine)),
                FSub(FMul(FMul(a.x, a.z), t), FMul(a.y, sine)),
                FAdd(FMul(FMul(a.y, a.z), t), FMul(a.x, sine)),
                FAdd(FMul(a.z, a.z), FMul(cosine, FSub(One, FMul(a.z, a.z)))))
        IN  T(FSub(One, cosine))
  IN  Fill(VDivF(axis, VLength(axis)), FCos(angle), FSin(angle))

\* Basis::set_axis_angle: all nine entries are written
set_axis_angle(axis, angle) ==
  LET Fill(axis_sq, cosine, sine) ==
        LET T(t) ==
              new_from_floats(
                FAdd(axis_sq.x, FMul(cosine, FSub(One, axis_sq.x))),
                FSub(FMul(FMul(axis.x, axis.y), t), FMul(axis.z, sine)),
                FAdd(FMul(FMul(axis.x, axis.z), t), FMul(axis.y, sine)),
                FAdd(FMul(FMul(axis.x, axis.y), t), FMul(axis.z, sine)),
                FAdd(axis_sq.y, FMul(cosine, FSub(One, axis_sq.y))),
                FSub(FMul(FMul(axis.y, axis.z), t), FMul(axis.x, sine)),
                FSub(FMul(FMul(axis.x, axis.z), t), FMul(axis.y, sine)),
                FAdd(FMul(FMul(axis.y, axis.z), t), FMul(axis.x, sine)),
                FAdd(axis_sq.z, FMul(cosine, FSub(One, axis_sq.z))))
        IN  T(FSub(One, cosine))
  IN  Fill(VMul(axis, axis), FCos(angle), FSin(angle))

\* ===================== Quaternion interpolation =====================
\* Vector3::is_normalized
VIsNormalized(a) ==
  is_equal_approx_with_tolerance(VLengthSquared(a), One, UNIT_EPSILON)

\* Quaternion::from((&axis, angle))
quat_from_axis_angle(axis, angle) ==
  LET Build(s, cos_angle) ==
        Quat(FMul(axis.x, s), FMul(axis.y, s), FMul(axis.z, s), cos_angle)
      Length(d) ==
        IF FEq(d, 0) THEN Quat(0, 0, 0, 0)
        ELSE Build(FDiv(FSin(FMul(angle, Half)), d), FCos(FMul(angle, Half)))
  IN  Length(VLength(axis))

get_angle(q) == FMul(Int2F(2), FAcos(q.w))

get_axis(q) ==
  LET Scaled(r) == Vec3(FMul(q.x, r), FMul(q.y, r), FMul(q.z, r))
  IN  IF FGt(FAbs(q.w), FSub(One, CMP_EPSILON))
      THEN Vec3(q.x, q.y, q.z)
      ELSE Scaled(FDiv(One, FSqrt(FSub(One, FMul(q.w, q.w)))))

\* Quaternion::log
log(q) ==
  LET Pack(src_v) == Quat(src_v.x, src_v.y, src_v.z, 0)
  IN  Pack(VScale(get_axis(q), get_angle(q)))

\* (mutant: the vector part is not tested)
exp_Unguarded(q) ==
  LET Rotation(theta, src_v) ==
        IF FALSE
        THEN Quat(0, 0, 0, One)
        ELSE quat_from_axis_angle(src_v, theta)
      Vector(src_v) == Rotation(VLength(src_v), VNormalized(src_v))
  IN  Vector(Vec3(q.x, q.y, q.z))

\* Quaternion::exp
exp(q) ==
  LET Rotation(theta, src_v) ==
        IF FLt(theta, CMP_EPSILON) \/ ~VIsNormalized(src_v)
        THEN Quat(0, 0, 0, One)
        ELSE quat_from_axis_angle(src_v, theta)
      Vector(src_v) == Rotation(VLength(src_v), VNormalized(src_v))
  IN  Vector(Vec3(q.x, q.y, q.z))

\* (mutant: the control points are shifted by one, the constant term is
\* taken from `pre`)
cubic_interpolate_Shifted(from, to, pre, post, weight) ==
  LET Powers(w2, w3) ==
        FMul(Half,
          FAdd(FAdd(FAdd(FMul(pre, Int2F(2)),
                         FMul(FAdd(FNeg(pre), to), weight)),
                    FMul(FSub(FAdd(FSub(FMul(Int2F(2), pre),
                                        FMul(Int2F(5), from)),
                                   FMul(Int2F(4), to)),
                              post),
                         w2)),
               FMul(FAdd(FSub(FAdd(FNeg(pre), FMul(Int2F(3), from)),
                              FMul(Int2F(3), to)),
                         post),
                    w3)))
      Square(w2) == Powers(w2, FMul(w2, weight))
  IN  Square(FMul(weight, weight))

\* utils::cubic_interpolate
cubic_interpolate(from, to, pre, post, weight) ==
  LET Powers(w2, w3) ==
        FMul(Half,
          FAdd(FAdd(FAdd(FMul(from, Int2F(2)),
                         FMul(FAdd(FNeg(pre), to), weight)),
                    FMul(FSub(FAdd(FSub(FMul(Int2F(2), pre),
                                        FMul(Int2F(5), from)),
                                   FMul(Int2F(4), to)),
                              post),
                         w2)),
               FMul(FAdd(FSub(FAdd(FNeg(pre), FMul(Int2F(3), from)),
                              FMul(Int2F(3), to)),
                         post),
                    w3)))
      Square(w2) == Powers(w2, FMul(w2, weight))
  IN  Square(FMul(weight, weight))

\* (mutant: the sign of `to` is never adjusted)
slerp_NoFlip(self, to, weight) ==
  LET Blend(scale0, scale1) ==
        [k \in QAxes |-> FAdd(FMul(scale0, self[k]), FMul(scale1, to[k]))]
      Sines(omega, sinom) ==
        Blend(FDiv(FSin(FMul(FSub(One, weight), omega)), sinom),
              FDiv(FSin(FMul(weight, omega)), sinom))
      Coefficients(cosom) ==
        IF FGt(FSub(One, cosom), CMP_EPSILON)
        THEN Sines(FAcos(cosom), FSin(FAcos(cosom)))
        ELSE Blend(FSub(One, weight), weight)
  IN  Coefficients(QDot(self, to))

\* (mutant: the coefficients are always the ratios of sines)
slerp_AlwaysSines(self, to, weight) ==
  LET Blend(to1, scale0, scale1) ==
        [k \in QAxes |-> FAdd(FMul(scale0, self[k]), FMul(scale1, to1[k]))]
      Sines(to1, omega, sinom) ==
        Blend(to1, FDiv(FSin(FMul(FSub(One, weight), omega)), sinom),
              FDiv(FSin(FMul(weight, omega)), sinom))
      Standard(to1, omega) == Sines(to1, omega, FSin(omega))
      Coefficients(to1, cosom) ==
        IF FGt(FSub(One, cosom), -One)
        THEN Standard(to1, FAcos(cosom))
        ELSE Blend(to1, FSub(One, weight), weight)
      Signs(cosom) ==
        IF FLt(cosom, 0) THEN Coefficients(QNeg(to), FNeg(cosom))
                         ELSE Coefficients(to, cosom)
  IN  Signs(QDot(self, to))

\* Quaternion::slerp
slerp(self, to, weight) ==
  LET Blend(to1, scale0, scale1) ==
        [k \in QAxes |-> FAdd(FMul(scale0, self[k]), FMul(scale1, to1[k]))]
      Sines(to1, omega, sinom) ==
        Blend(to1, FDiv(FSin(FMul(FSub(One, weight), omega)), sinom),
              FDiv(FSin(FMul(weight, omega)), sinom))
      Standard(to1, omega) == Sines(to1, omega, FSin(omega))
      Coefficients(to1, cosom) ==
        IF FGt(FSub(One, cosom), CMP_EPSILON)
        THEN Standard(to1, FAcos(cosom))
        ELSE Blend(to1, FSub(One, weight), weight)
      Signs(cosom) ==
        IF FLt(cosom, 0) THEN Coefficients(QNeg(to), FNeg(cosom))
                         ELSE Coefficients(to, cosom)
  IN  Signs(QDot(self, to))

\* (mutant: `to` is negated when the dot product is negative)
slerp_ni_ShorterArc(self, to, weight) ==
  LET Blend(to1, inv_factor, new_factor) ==
        [k \in QAxes |->
           FAdd(FMul(inv_factor, self[k]), FMul(new_factor, to1[k]))]
      Factors(to1, theta, sin_t) ==
        Blend(to1, FMul(FSin(FMul(FSub(One, weight), theta)), sin_t),
              FMul(FSin(FMul(weight, theta)), sin_t))
      Interpolate(to1, theta) == Factors(to1, theta, FDiv(One, FSin(theta)))
      Dot(to1, dot) ==
        IF FGt(FAbs(dot), FSub(One, FDiv(CMP_EPSILON, Int2F(10))))
        THEN self
        ELSE Interpolate(to1, FAcos(dot))
  IN  IF FLt(QDot(self, to), 0)
      THEN Dot(QNeg(to), FNeg(QDot(self, to)))
      ELSE Dot(to, QDot(self, to))

\* Quaternion::slerp_ni
slerp_ni(self, to, weight) ==
  LET Blend(to1, inv_factor, new_factor) ==
        [k \in QAxes |->
           FAdd(FMul(inv_factor, self[k]), FMul(new_factor, to1[k]))]
      Factors(to1, theta, sin_t) ==
        Blend(to1, FMul(FSin(FMul(FSub(One, weight), theta)), sin_t),
              FMul(FSin(FMul(weight, theta)), sin_t))
      Interpolate(to1, theta) == Factors(to1, theta, FDiv(One, FSin(theta)))
      Dot(to1, dot) ==
        IF FGt(FAbs(dot), FSub(One, FDiv(CMP_EPSILON, Int2F(10))))
        THEN self
        ELSE Interpolate(to1, FAcos(dot))
  IN  Dot(to, QDot(self, to))

\* (mutant: post_b is flipped on the plain sign test whether or not b was)
spherical_cubic_interpolate_PlainSignTest(self, b, pre_a, post_b, weight) ==
  LET Forced(f) == CHOOSE g \in {f} : g = g
      Flip(q, flip) == IF flip THEN QNeg(q) ELSE q
      Zero == Quat(0, 0, 0, 0)
      Blend(s) ==
        [from_q |-> s.from_q, to_q |-> s.to_q,
         pre_q |-> s.pre_q, post_q |-> s.post_q,
         q1 |-> s.q["from_q"], q2 |-> s.q["to_q"],
         result |-> slerp(s.q["from_q"], s.q["to_q"], weight)]
      \* each pass: the cubic of the logarithms in the space of from_q
      \* (ln_from is zero) or of to_q (ln_to is zero), then space * ln.exp()
      Cubic(s, space, ln_from, ln_to) ==
        [k \in QAxes |->
           IF k = "w" THEN 0
           ELSE cubic_interpolate(ln_from[k], ln_to[k],
                                  s.ln[<<space, "pre_q">>][k],
                                  s.ln[<<space, "post_q">>][k], weight)]
      Passes(s) ==
        [from_q |-> s.from_q, to_q |-> s.to_q,
         pre_q |-> s.pre_q, post_q |-> s.post_q,
         q |-> Forced([space \in {"from_q", "to_q"} |->
                 QMul(s[space],
                      exp(IF space = "from_q"
                          THEN Cubic(s, space, Zero,
                                     s.ln[<<"from_q", "to_q">>])
                          ELSE Cubic(s, space,
                                     s.ln[<<"to_q", "from_q">>], Zero)))])]
      Logs(s) ==
        [from_q |-> s.from_q, to_q |-> s.to_q,
         pre_q |-> s.pre_q, post_q |-> s.post_q,
         ln |-> Forced([p \in {<<"from_q", "to_q">>, <<"from_q", "pre_q">>,
                               <<"from_q", "post_q">>, <<"to_q", "from_q">>,
                               <<"to_q", "pre_q">>, <<"to_q", "post_q">>} |->
                  log(QMul(QInverse(s[p[1]]), s[p[2]]))])]
      Flip3(s) ==
        [from_q |-> s.from_q, pre_q |-> s.pre_q, to_q |-> s.to_q,
         post_q |-> Flip(s.post_q,
                         FLt(QDot(s.to_q, s.post_q), 0))]
      Flip2(s) ==
        [from_q |-> s.from_q, pre_q |-> s.pre_q,
         to_q |-> Flip(s.to_q, s.flip2), post_q |-> s.post_q,
         flip2 |-> s.flip2]
      Flip1(s) ==
        [from_q |-> s.from_q,
         pre_q |-> Flip(s.pre_q, FLt(QDot(s.from_q, s.pre_q), 0)),
         to_q |-> s.to_q, post_q |-> s.post_q,
         flip2 |-> FLt(QDot(s.from_q, s.to_q), 0)]
      Align(in) ==
        Forced([n \in DOMAIN in |->
                  get_rotation_quaternion(set_quaternion(in[n]))])
  \* the stages in turn, each applied to the value of the one before
  IN  CHOOSE r \in
        {Blend(v6) : v6 \in {Passes(v5) : v5 \in {Logs(v4) : v4 \in
          {Flip3(v3) : v3 \in {Flip2(v2) : v2 \in {Flip1(v1) : v1 \in
            {Align([from_q |-> self, pre_q |-> pre_a, to_q |-> b, post_q |-> post_b])}}}}}}} : TRUE

\* Quaternion::spherical_cubic_interpolate: the result, with the locals
\* from_q, pre_q, to_q and post_q after the flips, and q1 and q2.
\* The flips test dot.is_sign_negative(), the sign bit: the numbers of this
\* model have one zero, so the test is dot < 0.
spherical_cubic_interpolate(self, b, pre_a, post_b, weight) ==
  LET Forced(f) == CHOOSE g \in {f} : g = g
      Flip(q, flip) == IF flip THEN QNeg(q) ELSE q
      Zero == Quat(0, 0, 0, 0)
      Blend(s) ==
        [from_q |-> s.from_q, to_q |-> s.to_q,
         pre_q |-> s.pre_q, post_q |-> s.post_q,
         q1 |-> s.q["from_q"], q2 |-> s.q["to_q"],
         result |-> slerp(s.q["from_q"], s.q["to_q"], weight)]
      \* each pass: the cubic of the logarithms in the space of from_q
      \* (ln_from is zero) or of to_q (ln_to is zero), then space * ln.exp()
      Cubic(s, space, ln_from, ln_to) ==
        [k \in QAxes |->
           IF k = "w" THEN 0
           ELSE cubic_interpolate(ln_from[k], ln_to[k],
                                  s.ln[<<space, "pre_q">>][k],
                                  s.ln[<<space, "post_q">>][k], weight)]
      Passes(s) ==
        [from_q |-> s.from_q, to_q |-> s.to_q,
         pre_q |-> s.pre_q, post_q |-> s.post_q,
         q |-> Forced([space \in {"from_q", "to_q"} |->
                 QMul(s[space],
                      exp(IF space = "from_q"
                          THEN Cubic(s, space, Zero,
                                     s.ln[<<"from_q", "to_q">>])
                          ELSE Cubic(s, space,
                                     s.ln[<<"to_q", "from_q">>], Zero)))])]
      Logs(s) ==
        [from_q |-> s.from_q, to_q |-> s.to_q,
         pre_q |-> s.pre_q, post_q |-> s.post_q,
         ln |-> Forced([p \in {<<"from_q", "to_q">>, <<"from_q", "pre_q">>,
                               <<"from_q", "post_q">>, <<"to_q", "from_q">>,
                               <<"to_q", "pre_q">>, <<"to_q", "post_q">>} |->
                  log(QMul(QInverse(s[p[1]]), s[p[2]]))])]
      Flip3(s) ==
        [from_q |-> s.from_q, pre_q |-> s.pre_q, to_q |-> s.to_q,
         post_q |-> Flip(s.post_q,
                         IF s.flip2
                         THEN FLe(QDot(s.to_q, s.post_q), 0)
                         ELSE FLt(QDot(s.to_q, s.post_q), 0))]
      Flip2(s) ==
        [from_q |-> s.from_q, pre_q |-> s.pre_q,
         to_q |-> Flip(s.to_q, s.flip2), post_q |-> s.post_q,
         flip2 |-> s.flip2]
      Flip1(s) ==
        [from_q |-> s.from_q,
         pre_q |-> Flip(s.pre_q, FLt(QDot(s.from_q, s.pre_q), 0)),
         to_q |-> s.to_q, post_q |-> s.post_q,
         flip2 |-> FLt(QDot(s.from_q, s.to_q), 0)]
      Align(in) ==
        Forced([n \in DOMAIN in |->
                  get_rotation_quaternion(set_quaternion(in[n]))])
  \* the stages in turn, each applied to the value of the one before
  IN  CHOOSE r \in
        {Blend(v6) : v6 \in {Passes(v5) : v5 \in {Logs(v4) : v4 \in
          {Flip3(v3) : v3 \in {Flip2(v2) : v2 \in {Flip1(v1) : v1 \in
            {Align([from_q |-> self, pre_q |-> pre_a, to_q |-> b, post_q |-> post_b])}}}}}}} : TRUE

\* (mutant: the quotients are taken whatever the divisor)
cubic_interpolate_in_time_Unguarded(from, to, pre, post, weight, to_t, pre_t, post_t) ==
  LET Lerp(a, b, t) == FAdd(a, FMul(FSub(b, a), t))
      Last(b1, b2, t) == Lerp(b1, b2, FDiv(t, to_t))
      Second(a1, a2, a3, t) ==
        Last(Lerp(a1, a2, FDiv(FSub(t, pre_t), FSub(to_t, pre_t))),
             Lerp(a2, a3, FDiv(t, post_t)), t)
      First(t) ==
        Second(Lerp(pre, from, FDiv(FSub(t, pre_t), FNeg(pre_t))),
               Lerp(from, to, FDiv(t, to_t)),
               Lerp(to, post, FDiv(FSub(t, to_t), FSub(post_t, to_t))), t)
  IN  First(Lerp(0, to_t, weight))

\* utils::cubic_interpolate_in_time (Barry-Goldman)
cubic_interpolate_in_time(from, to, pre, post, weight, to_t, pre_t, post_t) ==
  LET Lerp(a, b, t) == FAdd(a, FMul(FSub(b, a), t))
      Last(b1, b2, t) ==
        Lerp(b1, b2, IF FEq(to_t, 0) THEN Half ELSE FDiv(t, to_t))
      Second(a1, a2, a3, t) ==
        Last(Lerp(a1, a2,
                  IF FEq(FSub(to_t, pre_t), 0) THEN 0
                  ELSE FDiv(FSub(t, pre_t), FSub(to_t, pre_t))),
             Lerp(a2, a3, IF FEq(post_t, 0) THEN One ELSE FDiv(t, post_t)),
             t)
      First(t) ==
        Second(Lerp(pre, from,
                    IF FEq(pre_t, 0) THEN 0
                    ELSE FDiv(FSub(t, pre_t), FNeg(pre_t))),
               Lerp(from, to, IF FEq(to_t, 0) THEN Half ELSE FDiv(t, to_t)),
               Lerp(to, post,
                    IF FEq(FSub(post_t, to_t), 0) THEN One
                    ELSE FDiv(FSub(t, to_t), FSub(post_t, to_t))),
               t)
  IN  First(Lerp(0, to_t, weight))

\* (mutant: no quaternion is flipped)
spherical_cubic_interpolate_in_time_NoFlips(self, b, pre_a, post_b, weight, b_t, pre_a_t, post_b_t) ==
  LET Forced(f) == CHOOSE g \in {f} : g = g
      Flip(q, flip) == q
      Zero == Quat(0, 0, 0, 0)
      Blend(s) ==
        [from_q |-> s.from_q, to_q |-> s.to_q,
         pre_q |-> s.pre_q, post_q |-> s.post_q,
         q1 |-> s.q["from_q"], q2 |-> s.q["to_q"],
         result |-> slerp(s.q["from_q"], s.q["to_q"], weight)]
      \* each pass: the cubic of the logarithms in the space of from_q
      \* (ln_from is zero) or of to_q (ln_to is zero), then space * ln.exp()
      Cubic(s, space, ln_from, ln_to) ==
        [k \in QAxes |->
           IF k = "w" THEN 0
           ELSE cubic_interpolate_in_time(ln_from[k], ln_to[k],
                                          s.ln[<<space, "pre_q">>][k],
                                          s.ln[<<space, "post_q">>][k],
                                          weight, b_t, pre_a_t, post_b_t)]
      Passes(s) ==
        [from_q |-> s.from_q, to_q |-> s.to_q,
         pre_q |-> s.pre_q, post_q |-> s.post_q,
         q |-> Forced([space \in {"from_q", "to_q"} |->
                 QMul(s[space],
                      exp(IF space = "from_q"
                          THEN Cubic(s, space, Zero,
                                     s.ln[<<"from_q", "to_q">>])
                          ELSE Cubic(s, space,
                                     s.ln[<<"to_q", "from_q">>], Zero)))])]
      Logs(s) ==
        [from_q |-> s.from_q, to_q |-> s.to_q,
         pre_q |-> s.pre_q, post_q |-> s.post_q,
         ln |-> Forced([p \in {<<"from_q", "to_q">>, <<"from_q", "pre_q">>,
                               <<"from_q", "post_q">>, <<"to_q", "from_q">>,
                               <<"to_q", "pre_q">>, <<"to_q", "post_q">>} |->
                  log(QMul(QInverse(s[p[1]]), s[p[2]]))])]
      Flip3(s) ==
        [from_q |-> s.from_q, pre_q |-> s.pre_q, to_q |-> s.to_q,
         post_q |-> Flip(s.post_q,
                         IF s.flip2
                         THEN FLe(QDot(s.to_q, s.post_q), 0)
                         ELSE FLt(QDot(s.to_q, s.post_q), 0))]
      Flip2(s) ==
        [from_q |-> s.from_q, pre_q |-> s.pre_q,
         to_q |-> Flip(s.to_q, s.flip2), post_q |-> s.post_q,
         flip2 |-> s.flip2]
      Flip1(s) ==
        [from_q |-> s.from_q,
         pre_q |-> Flip(s.pre_q, FLt(QDot(s.from_q, s.pre_q), 0)),
         to_q |-> s.to_q, post_q |-> s.post_q,
         flip2 |-> FLt(QDot(s.from_q, s.to_q), 0)]
      Align(in) ==
        Forced([n \in DOMAIN in |->
                  get_rotation_quaternion(set_quaternion(in[n]))])
  \* the stages in turn, each applied to the value of the one before
  IN  CHOOSE r \in
        {Blend(v6) : v6 \in {Passes(v5) : v5 \in {Logs(v4) : v4 \in
          {Flip3(v3) : v3 \in {Flip2(v2) : v2 \in {Flip1(v1) : v1 \in
            {Align([from_q |-> self, pre_q |-> pre_a, to_q |-> b, post_q |-> post_b])}}}}}}} : TRUE

\* Quaternion::spherical_cubic_interpolate_in_time: the result, with the
\* locals from_q, pre_q, to_q and post_q after the flips, and q1 and q2.
spherical_cubic_interpolate_in_time(self, b, pre_a, post_b, weight, b_t, pre_a_t, post_b_t) ==
  LET Forced(f) == CHOOSE g \in {f} : g = g
      Flip(q, flip) == IF flip THEN QNeg(q) ELSE q
      Zero == Quat(0, 0, 0, 0)
      Blend(s) ==
        [from_q |-> s.from_q, to_q |-> s.to_q,
         pre_q |-> s.pre_q, post_q |-> s.post_q,
         q1 |-> s.q["from_q"], q2 |-> s.q["to_q"],
         result |-> slerp(s.q["from_q"], s.q["to_q"], weight)]
      \* each pass: the cubic of the logarithms in the space of from_q
      \* (ln_from is zero) or of to_q (ln_to is zero), then space * ln.exp()
      Cubic(s, space, ln_from, ln_to) ==
        [k \in QAxes |->
           IF k = "w" THEN 0
           ELSE cubic_interpolate_in_time(ln_from[k], ln_to[k],
                                          s.ln[<<space, "pre_q">>][k],
                                          s.ln[<<space, "post_q">>][k],
                                          weight, b_t, pre_a_t, post_b_t)]
      Passes(s) ==
        [from_q |-> s.from_q, to_q |-> s.to_q,
         pre_q |-> s.pre_q, post_q |-> s.post_q,
         q |-> Forced([space \in {"from_q", "to_q"} |->
                 QMul(s[space],
                      exp(IF space = "from_q"
                          THEN Cubic(s, space, Zero,
                                     s.ln[<<"from_q", "to_q">>])
                          ELSE Cubic(s, space,
                                     s.ln[<<"to_q", "from_q">>], Zero)))])]
      Logs(s) ==
        [from_q |-> s.from_q, to_q |-> s.to_q,
         pre_q |-> s.pre_q, post_q |-> s.post_q,
         ln |-> Forced([p \in {<<"from_q", "to_q">>, <<"from_q", "pre_q">>,
                               <<"from_q", "post_q">>, <<"to_q", "from_q">>,
                               <<"to_q", "pre_q">>, <<"to_q", "post_q">>} |->
                  log(QMul(QInverse(s[p[1]]), s[p[2]]))])]
      Flip3(s) ==
        [from_q |-> s.from_q, pre_q |-> s.pre_q, to_q |-> s.to_q,
         post_q |-> Flip(s.post_q,
                         IF s.flip2
                         THEN FLe(QDot(s.to_q, s.post_q), 0)
                         ELSE FLt(QDot(s.to_q, s.post_q), 0))]
      Flip2(s) ==
        [from_q |-> s.from_q, pre_q |-> s.pre_q,
         to_q |-> Flip(s.to_q, s.flip2), post_q |-> s.post_q,
         flip2 |-> s.flip2]
      Flip1(s) ==
        [from_q |-> s.from_q,
         pre_q |-> Flip(s.pre_q, FLt(QDot(s.from_q, s.pre_q), 0)),
         to_q |-> s.to_q, post_q |-> s.post_q,
         flip2 |-> FLt(QDot(s.from_q, s.to_q), 0)]
      Align(in) ==
        Forced([n \in DOMAIN in |->
                  get_rotation_quaternion(set_quaternion(in[n]))])
  \* the stages in turn, each applied to the value of the one before
  IN  CHOOSE r \in
        {Blend(v6) : v6 \in {Passes(v5) : v5 \in {Logs(v4) : v4 \in
          {Flip3(v3) : v3 \in {Flip2(v2) : v2 \in {Flip1(v1) : v1 \in
            {Align([from_q |-> self, pre_q |-> pre_a, to_q |-> b, post_q |-> post_b])}}}}}}} : TRUE

\* =====================================================================
\* State.  The library is a set of pure functions over caller-owned
\* values; the state is the caller's values and the position of the
\* caller in a sequence of calls.
\* =====================================================================
VARIABLES
  pc,                            \* the step the caller has reached
  \* -- Euler conversions
  order,                         \* the Option<EulerOrder> argument
  original_euler,                \* the caller's Euler vector
  to_rotation,                   \* Basis::from_euler(original_euler, order)
  euler_from_rotation,           \* to_rotation.get_euler(order)
  rotation_from_computed_euler,  \* Basis::from_euler(euler_from_rotation, order)
  res,                           \* to_rotation.inverse() * rotation_from_computed_euler
  quat,                          \* Quaternion::from_euler(original_euler)
  quat_euler,                    \* quat.get_euler(order)
  quat_chain,                    \* the product of the three single-axis quaternions
  \* -- calls on one Basis
  basis,                         \* the receiver
  axis_angle,                    \* the out-parameters of get_axis_angle
  m,                             \* the matrix get_rotation_quaternion hands to get_quaternion
  rotation_quaternion,           \* the result of get_rotation_quaternion
  ortho,                         \* the result of orthonormalized
  checks,                        \* the results of the is_* predicates
  quaternion,                    \* Quaternion::from(&basis)
  given,                         \* the (axis, angle) argument of Basis::from
  factor,                        \* the float operand of basis * f, basis / f, *=, /=
  scaled_basis,                  \* the result of the operator (the receiver after *=, /=)
  \* -- interpolation between quaternions
  q_from,                        \* the receiver
  q_to,                          \* the argument to / b
  q_pre,                         \* the argument pre_a
  q_post,                        \* the argument post_b
  q_weight,                      \* the argument weight
  slerped,                       \* the result of slerp
  cubic,                         \* spherical_cubic_interpolate: result and locals
  scalar,                        \* the float c of c * q_from
  from_scaled,                   \* Basis::from(&(c * q_from))
  ni,                            \* the result of slerp_ni
  mapped,                        \* the receiver and the result of log or exp
  assigned,                      \* q_from after q_from *= q_to
  times,                         \* the arguments b_t, pre_a_t, post_b_t
  timed                          \* spherical_cubic_interpolate_in_time: result and locals

eulerVars == <<order, original_euler, to_rotation, euler_from_rotation,
               rotation_from_computed_euler, res, quat, quat_euler, quat_chain>>
basisVars == <<basis, axis_angle, m, rotation_quaternion, ortho, checks,
               quaternion, given, factor, scaled_basis>>

quatVars == <<q_from, q_to, q_pre, q_post, q_weight, slerped, cubic, scalar,
              from_scaled, ni, mapped, assigned, times, timed>>

vars == <<pc, eulerVars, basisVars, quatVars>>

\* the values of variables a specification does not use
EulerUnused ==
  /\ order = "None"
  /\ original_euler = ZeroVec
  /\ to_rotation = IDENTITY
  /\ euler_from_rotation = ZeroVec
  /\ rotation_from_computed_euler = IDENTITY
  /\ res = IDENTITY
  /\ quat = Quat(0, 0, 0, One)
  /\ quat_euler = ZeroVec
  /\ quat_chain = Quat(0, 0, 0, One)
BasisUnused ==
  /\ basis = IDENTITY
  /\ axis_angle = [axis |-> ZeroVec, angle |-> 0, branch |-> "none"]
  /\ m = IDENTITY
  /\ rotation_quaternion = Quat(0, 0, 0, One)
  /\ ortho = IDENTITY
  /\ checks = [conformal |-> FALSE, orthogonal |-> FALSE,
               orthonormal |-> FALSE, rotation |-> FALSE]
  /\ quaternion = Quat(0, 0, 0, One)
  /\ given = [axis |-> ZeroVec, angle |-> 0]
  /\ factor = One
  /\ scaled_basis = IDENTITY

QuatUnused ==
  /\ q_from = Quat(0, 0, 0, One)
  /\ q_to = Quat(0, 0, 0, One)
  /\ q_pre = Quat(0, 0, 0, One)
  /\ q_post = Quat(0, 0, 0, One)
  /\ q_weight = 0
  /\ slerped = Quat(0, 0, 0, One)
  /\ cubic = [from_q |-> Quat(0, 0, 0, One), to_q |-> Quat(0, 0, 0, One),
              pre_q |-> Quat(0, 0, 0, One), post_q |-> Quat(0, 0, 0, One),
              q1 |-> Quat(0, 0, 0, One), q2 |-> Quat(0, 0, 0, One),
              result |-> Quat(0, 0, 0, One)]
  /\ scalar = One
  /\ from_scaled = IDENTITY
  /\ ni = Quat(0, 0, 0, One)
  /\ mapped = [src |-> Quat(0, 0, 0, One), out |-> Quat(0, 0, 0, One)]
  /\ assigned = Quat(0, 0, 0, One)
  /\ times = [b_t |-> 0, pre_a_t |-> 0, post_b_t |-> 0]
  /\ timed = [from_q |-> Quat(0, 0, 0, One), to_q |-> Quat(0, 0, 0, One),
              pre_q |-> Quat(0, 0, 0, One), post_q |-> Quat(0, 0, 0, One),
              q1 |-> Quat(0, 0, 0, One), q2 |-> Quat(0, 0, 0, One),
              result |-> Quat(0, 0, 0, One)]

\* ---- bounds of the Euler inputs: the angles k * pi/4, |k| <= MaxAngleStep,
\* and two angles next to +-90 degrees: one whose sine is above
\* 1 - CMP_EPSILON (treated as gimbal lock though not exactly 90 degrees)
\* and one whose sine is just below it (regular branch, cosine near 0);
\* and 135 degrees, an angle that asin cannot return.
MaxAngleStep == 2
GridAngles == {DivSmall(k * PI, 4) : k \in (-MaxAngleStep)..MaxAngleStep}
Angles == GridAngles \cup {HalfPi - 25000, -(HalfPi - 50000), DivSmall(3 * PI, 4)}
EulerInputs == {Vec3(ax, ay, az) : ax \in Angles, ay \in Angles, az \in Angles}

InitEuler ==
  /\ pc = "start"
  /\ order \in EulerOrders \cup {"None"}
  /\ original_euler \in EulerInputs
  /\ to_rotation = IDENTITY
  /\ euler_from_rotation = ZeroVec
  /\ rotation_from_computed_euler = IDENTITY
  /\ res = IDENTITY
  /\ quat = quat_from_euler(original_euler)
  /\ quat_euler = ZeroVec
  /\ quat_chain = Quat(0, 0, 0, One)
  /\ BasisUnused
  /\ QuatUnused

\* let to_rotation = Basis::from_euler(&original_euler, order)
EulerToRotation ==
  /\ pc = "start"
  /\ to_rotation' = from_euler(original_euler, order)
  /\ pc' = "encoded"
  /\ UNCHANGED <<order, original_euler, euler_from_rotation,
                 rotation_from_computed_euler, res, quat, quat_euler,
                 quat_chain, basisVars, quatVars>>

\* let euler_from_rotation = to_rotation.get_euler(order)
EulerFromRotation ==
  /\ pc = "encoded"
  /\ euler_from_rotation' = get_euler(to_rotation, order)
  /\ pc' = "decoded"
  /\ UNCHANGED <<order, original_euler, to_rotation,
                 rotation_from_computed_euler, res, quat, quat_euler,
                 quat_chain, basisVars, quatVars>>

\* let rotation_from_computed_euler = Basis::from_euler(&euler_from_rotation, order)
RotationFromComputedEuler ==
  /\ pc = "decoded"
  /\ rotation_from_computed_euler' = from_euler(euler_from_rotation, order)
  /\ pc' = "reencoded"
  /\ UNCHANGED <<order, original_euler, to_rotation, euler_from_rotation,
                 res, quat, quat_euler, quat_chain, basisVars, quatVars>>

\* let res = to_rotation.inverse() * rotation_from_computed_euler
CompareRotations ==
  /\ pc = "reencoded"
  /\ res' = BasisMul(inverse(to_rotation), rotation_from_computed_euler)
  /\ pc' = "compared"
  /\ UNCHANGED <<order, original_euler, to_rotation, euler_from_rotation,
                 rotation_from_computed_euler, quat, quat_euler, quat_chain,
                 basisVars, quatVars>>

\* quat.get_euler(order)
QuatGetEuler ==
  /\ pc = "start"
  /\ quat_euler' = quat_get_euler(quat, order)
  /\ pc' = "quat_decoded"
  /\ UNCHANGED <<order, original_euler, to_rotation, euler_from_rotation,
                 rotation_from_computed_euler, res, quat, quat_chain,
                 basisVars, quatVars>>

\* from_euler((0, yaw, 0)) * from_euler((pitch, 0, 0)) * from_euler((0, 0, roll))
QuatChain ==
  /\ pc = "start"
  /\ quat_chain' = QMul(QMul(quat_from_euler(Vec3(0, original_euler.y, 0)),
                             quat_from_euler(Vec3(original_euler.x, 0, 0))),
                        quat_from_euler(Vec3(0, 0, original_euler.z)))
  /\ pc' = "chained"
  /\ UNCHANGED <<order, original_euler, to_rotation, euler_from_rotation,
                 rotation_from_computed_euler, res, quat, quat_euler,
                 basisVars, quatVars>>

NextEuler ==
  \/ EulerToRotation
  \/ EulerFromRotation
  \/ RotationFromComputedEuler
  \/ CompareRotations
  \/ QuatGetEuler
  \/ QuatChain

SpecEuler == InitEuler /\ [][NextEuler]_vars

\* ---------------------------------------------------------------------
\* C1: Euler round trip.  For every Euler vector and every order, each
\* column of from_euler(v).inverse() * from_euler(from_euler(v).get_euler())
\* is within 0.1 (length of the difference) of the identity column.
C1_EulerRoundTrip ==
  pc = "compared" =>
    LET ColumnNear(index, target) ==
          FLe(VLength(VSub(get_column(res, index), target)), DivSmall(One, 10))
    IN  /\ ColumnNear(0, Vec3(One, 0, 0))
        /\ ColumnNear(1, Vec3(0, One, 0))
        /\ ColumnNear(2, Vec3(0, 0, One))

C1_Witness ==
  /\ pc = "compared"
  /\ order = "XYZ"
  /\ original_euler.y = HalfPi
  /\ original_euler.z # 0
  /\ euler_from_rotation # original_euler
  /\ euler_from_rotation.z = 0

\* ---------------------------------------------------------------------
\* C7: Quaternion::from_euler of (pitch, yaw, roll) equals the product of
\* the single-axis quaternions, yaw then pitch then roll, within
\* CMP_EPSILON in every component; and the two are the same polynomial in the
\* half-angle sines and cosines: each is linear in every one of the six, so
\* they agree everywhere if they agree where each is -1, 0 or 1.
\* The second part does not depend on the state; it is evaluated in the
\* states where the Euler vector is zero.
C7_QuatFromEulerIsYXZProduct ==
  /\ pc = "chained" =>
       \A k \in QAxes : FLt(FAbs(FSub(quat[k], quat_chain[k])), CMP_EPSILON)
  /\ (pc = "chained" /\ original_euler = ZeroVec) =>
       \A c1, s1, c2, s2, c3, s3 \in {-One, 0, One} :
          quat_from_half_angles(c1, s1, c2, s2, c3, s3)
            = QMul(QMul(Quat(0, s1, 0, c1), Quat(s2, 0, 0, c2)),
                   Quat(0, 0, s3, c3))

C7_Witness ==
  /\ pc = "chained"
  /\ \A k \in Axes : original_euler[k] \notin {0, HalfPi, -HalfPi}
  /\ \A k \in QAxes : quat_chain[k] # 0
  /\ quat_chain # Quat(0, 0, 0, One)

\* ---------------------------------------------------------------------
\* C10: the order used when none is given is YXZ, for Basis::from_euler,
\* Basis::get_euler and Quaternion::get_euler; and Quaternion::get_euler
\* always equals the Euler angles of the quaternion's Basis.
C10_DefaultOrderYXZ ==
  /\ (pc \in {"encoded", "decoded", "reencoded", "compared"} /\ order = "None")
        => to_rotation = set_euler(original_euler, "YXZ")
  /\ (pc \in {"decoded", "reencoded", "compared"} /\ order = "None")
        => euler_from_rotation = get_euler_YXZ(to_rotation)
  /\ (pc = "quat_decoded" /\ order = "None")
        => quat_euler = get_euler_YXZ(set_quaternion(quat))
  /\ pc = "quat_decoded"
        => quat_euler = get_euler(set_quaternion(quat), order)

C10_Witness ==
  /\ pc = "quat_decoded"
  /\ order = "None"
  /\ quat_euler # ZeroVec
  /\ quat_euler # get_euler_XYZ(set_quaternion(quat))
  /\ set_euler(original_euler, "YXZ") # set_euler(original_euler, "XYZ")

\* =====================================================================
\* Calls on one Basis.
\* =====================================================================
\* ---- inputs: rotations on the angle grid, some by an angle next to
\* CMP_EPSILON, each scaled row by row, and the matrices of the test suite.
UniformScales ==
  {One, Int2F(2), -One, 0, DivSmall(Int2F(12), 10), Int2F(100)}
NonUniformScale ==
  Vec3(DivSmall(Int2F(12), 10), DivSmall(Int2F(34), 10), DivSmall(Int2F(56), 10))
\* set_axis_angle: x90deg and bug_nan
x90deg == new_from_floats(One, 0, 0, 0, 0, -One, 0, One, 0)
bug_nan == new_from_floats(One + 2, 0, 839, 0, One, 0, -839, 0, One + 2)
\* is_conformal_checks: the X axis skewed 45 degrees
skewed == BasisNew(Vec3(FRAC_1_SQRT_2, FRAC_1_SQRT_2, 0), Vec3(0, One, 0),
                   Vec3(0, 0, One))
\* a symmetric matrix with trace 3 that is not diagonal
sheared == new_from_floats(One, Half, 0, Half, One, 0, 0, 0, One)

\* symmetric matrices, for the angle-pi singularity of get_axis_angle: the
\* largest of the three diagonal terms alone, tied, next to zero and negative
SymmetricInputs ==
  {new_from_floats(One, Half, 0, Half, One, 0, 0, 0, 0),
   new_from_floats(One, 0, Half, 0, 0, 0, Half, 0, One),
   new_from_floats(One, Half, Half, Half, 0, 0, Half, 0, -Half),
   new_from_floats(0, One, 0, One, 0, 0, 0, 0, -One),
   new_from_floats(-One, 0, Half, 0, Half, 0, Half, 0, 0),
   new_from_floats(-One, 0, 0, 0, One, 0, 0, 0, One),
   new_from_floats(80 - One, 0, 0, 0, -One, 0, 0, 0, -One),
   new_from_floats(-One, 0, 0, 0, 80 - One, 0, 0, 0, -One),
   new_from_floats(Int2F(-2), 0, 0, 0, Int2F(-3), 0, 0, 0, Int2F(-4)),
   new_from_floats(Int2F(-3), One, 0, One, Int2F(-2), 0, 0, 0, Int2F(-4))}

BasisInputs ==
  LET RotationAngles ==
        {Vec3(ax, ay, az) :
           ax \in GridAngles \cup {40, 60}, ay \in GridAngles, az \in GridAngles}
      Scales ==
        {Vec3(s, s, s) : s \in UniformScales}
          \cup {NonUniformScale, Vec3(One, One, -One), Vec3(-One, One, -One),
                Vec3(One, -One, One)}
  IN  {scaled(from_euler(e, "YXZ"), s) : e \in RotationAngles, s \in Scales}
        \cup {x90deg, bug_nan, skewed, sheared} \cup SymmetricInputs

InitBasis ==
  /\ pc = "start"
  /\ basis \in BasisInputs
  /\ axis_angle = [axis |-> ZeroVec, angle |-> 0, branch |-> "none"]
  /\ m = IDENTITY
  /\ rotation_quaternion = Quat(0, 0, 0, One)
  /\ ortho = IDENTITY
  /\ checks = [conformal |-> FALSE, orthogonal |-> FALSE,
               orthonormal |-> FALSE, rotation |-> FALSE]
  /\ quaternion = Quat(0, 0, 0, One)
  /\ given = [axis |-> ZeroVec, angle |-> 0]
  /\ factor = One
  /\ scaled_basis = IDENTITY
  /\ EulerUnused
  /\ QuatUnused

\* basis.get_axis_angle(&mut axis, &mut angle)
GetAxisAngle ==
  /\ pc = "start"
  /\ axis_angle' = get_axis_angle(basis)
  /\ pc' = "axis_angle"
  /\ UNCHANGED <<basis, m, rotation_quaternion, ortho, checks, quaternion, given,
                 factor, scaled_basis,
                 eulerVars, quatVars>>

\* basis.get_rotation_quaternion()
GetRotationQuaternion ==
  /\ pc = "start"
  /\ m' = get_rotation_quaternion_m(basis)
  /\ rotation_quaternion' = get_rotation_quaternion(basis)
  /\ pc' = "rotation_quaternion"
  /\ UNCHANGED <<basis, axis_angle, ortho, checks, quaternion, given,
                 factor, scaled_basis,
                 eulerVars, quatVars>>

\* let ortho = basis.orthonormalized()
Orthonormalized ==
  /\ pc = "start"
  /\ ortho' = orthonormalized(basis)
  /\ pc' = "orthonormalized"
  /\ UNCHANGED <<basis, axis_angle, m, rotation_quaternion, checks, quaternion, given,
                 factor, scaled_basis,
                 eulerVars, quatVars>>

\* basis.orthonormalize()
Orthonormalize ==
  /\ pc = "orthonormalized"
  /\ basis' = orthonormalize(basis)
  /\ pc' = "orthonormalize"
  /\ UNCHANGED <<axis_angle, m, rotation_quaternion, ortho, checks, quaternion, given,
                 factor, scaled_basis,
                 eulerVars, quatVars>>

\* basis.is_conformal(), is_orthogonal(), is_orthonormal(), is_rotation()
CheckPredicates ==
  /\ pc = "start"
  /\ checks' = [conformal   |-> is_conformal(basis),
                orthogonal  |-> is_orthogonal(basis),
                orthonormal |-> is_orthonormal(basis),
                rotation    |-> is_rotation(basis)]
  /\ pc' = "predicates"
  /\ UNCHANGED <<basis, axis_angle, m, rotation_quaternion, ortho, quaternion, given,
                 factor, scaled_basis,
                 eulerVars, quatVars>>

\* Quaternion::from(&basis)
QuaternionFromBasis ==
  /\ pc = "start"
  /\ quaternion' = quaternion_from_basis(basis)
  /\ pc' = "quaternion"
  /\ UNCHANGED <<basis, axis_angle, m, rotation_quaternion, ortho, checks,
                 given, factor, scaled_basis,
                 eulerVars, quatVars>>

\* the axes given to Basis::from((axis, angle)): unit vectors, vectors that
\* are not normalized, and vectors of length zero and next to zero
AxisInputs ==
  {Vec3(One, 0, 0), Vec3(0, One, 0), Vec3(0, 0, One),
   Vec3(FRAC_1_SQRT_2, FRAC_1_SQRT_2, 0), Vec3(0, Int2F(2), Int2F(-1)),
   ZeroVec, Vec3(0, 0, 40)}

\* let mut b = Basis::default(); b.set_axis_angle(axis, angle)
FromAxisAngle ==
  /\ pc = "start"
  /\ basis = IDENTITY
  /\ \E axis \in AxisInputs, angle \in GridAngles \cup {DivSmall(PI, 3)} :
       /\ given' = [axis |-> axis, angle |-> angle]
       /\ basis' = set_axis_angle(axis, angle)
  /\ pc' = "from_axis_angle"
  /\ UNCHANGED <<axis_angle, m, rotation_quaternion, ortho, checks,
                 quaternion, factor, scaled_basis,
                 eulerVars, quatVars>>

\* basis * f (and f * basis)
MulFloat ==
  /\ pc = "start"
  /\ \E f \in {Int2F(2), -Half, DivSmall(Int2F(3), 2)} :
       /\ factor' = f
       /\ scaled_basis' = BasisNew(VScale(basis.x, f), VScale(basis.y, f),
                                   VScale(basis.z, f))
  /\ pc' = "mul_float"
  /\ UNCHANGED <<basis, axis_angle, m, rotation_quaternion, ortho, checks,
                 quaternion, given, eulerVars, quatVars>>

\* basis / f
DivFloat ==
  /\ pc = "start"
  /\ \E f \in {Int2F(2), -Half, DivSmall(Int2F(3), 2)} :
       /\ factor' = f
       /\ scaled_basis' = BasisNew(VDivF(basis.x, f), VDivF(basis.y, f),
                                   VDivF(basis.z, f))
  /\ pc' = "div_float"
  /\ UNCHANGED <<basis, axis_angle, m, rotation_quaternion, ortho, checks,
                 quaternion, given, eulerVars, quatVars>>

\* let mut a = basis; a *= f
MulAssignFloat ==
  /\ pc = "start"
  /\ \E f \in {Int2F(2), -Half, DivSmall(Int2F(3), 2)} :
       /\ factor' = f
       /\ scaled_basis' = [x |-> VScale(basis.x, f), y |-> VScale(basis.y, f),
                           z |-> VScale(basis.z, f)]
  /\ pc' = "mul_assign_float"
  /\ UNCHANGED <<basis, axis_angle, m, rotation_quaternion, ortho, checks,
                 quaternion, given, eulerVars, quatVars>>

\* let mut a = basis; a /= f
DivAssignFloat ==
  /\ pc = "start"
  /\ \E f \in {Int2F(2), -Half, DivSmall(Int2F(3), 2)} :
       /\ factor' = f
       /\ scaled_basis' = [x |-> VDivF(basis.x, f), y |-> VDivF(basis.y, f),
                           z |-> VDivF(basis.z, f)]
  /\ pc' = "div_assign_float"
  /\ UNCHANGED <<basis, axis_angle, m, rotation_quaternion, ortho, checks,
                 quaternion, given, eulerVars, quatVars>>

NextBasis ==
  \/ GetAxisAngle
  \/ GetRotationQuaternion
  \/ Orthonormalized
  \/ Orthonormalize
  \/ CheckPredicates
  \/ QuaternionFromBasis
  \/ FromAxisAngle
  \/ MulFloat
  \/ DivFloat
  \/ MulAssignFloat
  \/ DivAssignFloat

SpecBasis == InitBasis /\ [][NextBasis]_vars

\* ---------------------------------------------------------------------
\* C2: get_axis_angle at the singularities.  When the three anti-symmetric
\* differences are all within CMP_EPSILON of zero, the result is axis
\* (0, 1, 0) with angle exactly 0 if and only if the six off-diagonal
\* entries are within CMP_EPSILON of zero and |trace - 3| < 3 * CMP_EPSILON;
\* otherwise the angle is exactly pi.  The regular formula is used only when
\* some anti-symmetric difference has magnitude >= CMP_EPSILON.  The identity
\* gives angle 0, diag(-1, 1, -1) gives angle pi, and the 90-degrees-about-X
\* matrix gives axis (1, 0, 0).
C2_AxisAngleSingularities ==
  pc = "axis_angle" =>
    LET differences == {FSub(basis.x.y, basis.y.x), FSub(basis.x.z, basis.z.x),
                        FSub(basis.y.z, basis.z.y)}
        off_diagonal == {basis.x.y, basis.x.z, basis.y.x, basis.y.z,
                         basis.z.x, basis.z.y}
        trace == FAdd(FAdd(basis.x.x, basis.y.y), basis.z.z)
        symmetric == \A d \in differences : FLt(FAbs(d), CMP_EPSILON)
        identity ==
          /\ \A e \in off_diagonal : FLt(FAbs(e), CMP_EPSILON)
          /\ FLt(FAbs(FSub(trace, Int2F(3))), 3 * CMP_EPSILON)
        zero_turn == axis_angle.axis = Vec3(0, One, 0) /\ axis_angle.angle = 0
    IN  /\ symmetric => (zero_turn <=> identity)
        /\ (symmetric /\ ~identity) => axis_angle.angle = PI
        /\ axis_angle.branch = "regular"
             => \E d \in differences : FGe(FAbs(d), CMP_EPSILON)
        /\ symmetric => axis_angle.branch # "regular"
        /\ basis = IDENTITY => axis_angle.angle = 0
        /\ basis = from_scale(Vec3(-One, One, -One)) => axis_angle.angle = PI
        /\ basis = x90deg => axis_angle.axis = Vec3(One, 0, 0)

\* a symmetric matrix with trace 3 that is not diagonal is a half turn
C2_Witness ==
  /\ pc = "axis_angle"
  /\ basis = sheared
  /\ axis_angle.branch = "pi"
  /\ axis_angle.angle = PI

\* ---------------------------------------------------------------------
\* C3: for every Basis with finite entries the angle of get_axis_angle is
\* not NaN and lies in [0, pi].  In the regular branch an arc-cosine argument
\* (trace - 1) / 2 above 1 yields 0 and one below -1 yields pi; the singular
\* branches return exactly 0 or pi.
C3_AngleInRange ==
  (pc = "axis_angle" /\ \A r \in Axes : VIsFinite(basis[r])) =>
    LET argument ==
          FDiv(FSub(FAdd(FAdd(basis.x.x, basis.y.y), basis.z.z), One), Int2F(2))
    IN  /\ ~IsNaN(axis_angle.angle)
        /\ 0 <= axis_angle.angle /\ axis_angle.angle <= PI
        /\ (axis_angle.branch = "regular" /\ FGt(argument, One))
             => axis_angle.angle = 0
        /\ (axis_angle.branch = "regular" /\ FLt(argument, -One))
             => axis_angle.angle = PI
        /\ axis_angle.branch # "regular" => axis_angle.angle \in {0, PI}

\* the regression matrix of the test suite, whose trace is above 3
C3_Witness ==
  /\ pc = "axis_angle"
  /\ basis = bug_nan
  /\ axis_angle.branch = "regular"
  /\ FGt(FAdd(FAdd(basis.x.x, basis.y.y), basis.z.z), Int2F(3))
  /\ axis_angle.angle = 0

\* ---------------------------------------------------------------------
\* C4: get_rotation_quaternion leaves the receiver unchanged and works on
\* an orthonormalized copy; when the determinant of the copy is negative all
\* nine entries are negated, so the matrix handed to get_quaternion never
\* has a negative determinant; and when that matrix is orthonormal the
\* returned quaternion has length 1 and is the quaternion of that matrix,
\* a rotation of determinant +1 (to one part in a thousand).
C4_RotationQuaternionProper ==
  [][(pc = "start" /\ pc' = "rotation_quaternion") =>
       LET Negated(copy) == [r \in Axes |-> [c \in Axes |-> FNeg(copy[r][c])]]
           Handed(copy, det) == IF FLt(det, 0) THEN Negated(copy) ELSE copy
           Copy(copy) == Handed(copy, determinant(copy))
           Near(a, b) == FLt(FAbs(FSub(a, b)), DivSmall(One, 1000))
           Same(back, handed) ==
             /\ Near(determinant(back), One)
             /\ \A r \in Axes : \A c \in Axes : Near(back[r][c], handed[r][c])
           Proper(handed, q) ==
             /\ ~FLt(determinant(handed), 0)
             /\ q = get_quaternion(handed)
             /\ is_orthonormal(handed) =>
                  /\ Near(QLength(q), One)
                  /\ Same(set_quaternion(q), handed)
       IN  /\ basis' = basis
           /\ m' = Copy(orthonormalized(basis))
           /\ Proper(m', rotation_quaternion')]_vars

\* a Basis with a reflection: the copy is negated
C4_Witness ==
  /\ pc = "rotation_quaternion"
  /\ FLt(determinant(basis), 0)
  /\ FLt(determinant(orthonormalized(basis)), 0)
  /\ m # orthonormalized(basis)
  /\ is_orthonormal(m)
  /\ FGt(determinant(m), Half)
  /\ rotation_quaternion # Quat(0, 0, 0, One)

\* ---------------------------------------------------------------------
\* C8: the derived predicates.  is_orthogonal: the three columns are
\* pairwise orthogonal (|dot| < CMP_EPSILON).  is_conformal: orthogonal, and
\* the squared length of x approximately equals those of y and z.
\* is_orthonormal: orthogonal, and every squared length is approximately 1.
\* is_rotation: is_conformal, and the determinant is within UNIT_EPSILON of
\* 1.  Every uniform scale is conformal; diag(1.2, 3.4, 5.6) is orthogonal
\* but not conformal; the zero Basis is conformal and orthogonal but neither
\* orthonormal nor a rotation; diag(-1, -1, -1) is orthonormal but not a
\* rotation.
C8_DerivedPredicates ==
  pc = "predicates" =>
    LET Judge(x, y, z, det) ==
          LET Perpendicular(a, b) == FLt(FAbs(VDot(a, b)), CMP_EPSILON)
              Orthogonal ==
                /\ Perpendicular(x, y)
                /\ Perpendicular(x, z)
                /\ Perpendicular(y, z)
              Lengths(lengths) ==
                /\ checks.orthogonal <=> Orthogonal
                /\ checks.conformal <=>
                     /\ Orthogonal
                     /\ is_equal_approx(lengths.x, lengths.y)
                     /\ is_equal_approx(lengths.x, lengths.z)
                /\ checks.orthonormal <=>
                     /\ Orthogonal
                     /\ \A c \in Axes : is_equal_approx(lengths[c], One)
                /\ checks.rotation <=>
                     /\ checks.conformal
                     /\ FLt(FAbs(FSub(det, One)), UNIT_EPSILON)
          IN  Lengths(Vec3(VLengthSquared(x), VLengthSquared(y),
                           VLengthSquared(z)))
    IN  /\ Judge(get_column(basis, 0), get_column(basis, 1),
                 get_column(basis, 2), determinant(basis))
        /\ \A s \in UniformScales :
             basis = from_scale(Vec3(s, s, s)) => checks.conformal
        /\ basis = from_scale(NonUniformScale)
             => checks.orthogonal /\ ~checks.conformal
        /\ basis = from_scale(ZeroVec)
             => /\ checks.conformal /\ checks.orthogonal
                /\ ~checks.orthonormal /\ ~checks.rotation
        /\ basis = from_scale(Vec3(-One, -One, -One))
             => checks.orthonormal /\ ~checks.rotation

\* the uniform scale 1.2: conformal, though its axes are not of length 1
C8_Witness ==
  /\ pc = "predicates"
  /\ basis = from_scale(Vec3(DivSmall(Int2F(12), 10), DivSmall(Int2F(12), 10),
                             DivSmall(Int2F(12), 10)))
  /\ checks.conformal
  /\ checks.orthogonal
  /\ ~checks.orthonormal
  /\ ~checks.rotation

\* ---------------------------------------------------------------------
\* C9: orthonormalized returns a new Basis and leaves the receiver
\* unchanged; the result is what orthonormalize writes in place.  The
\* columns of the result are: x normalized; y minus its projection on the
\* new x, normalized; z minus its projections on the new x and the new y,
\* normalized.  A zero-length column comes back as a zero column.  When the
\* columns are independent (and their lengths do not overflow) the result's
\* columns are perpendicular and of length 1 to one part in a thousand.
C9_OrthonormalizedIsGramSchmidt ==
  [][/\ (pc = "start" /\ pc' = "orthonormalized") =>
          LET Near(a, b) == FLt(FAbs(FSub(a, b)), DivSmall(One, 1000))
              Independent(det, x, y, z) ==
                /\ FGt(FAbs(det), DivSmall(One, 1000))
                /\ \A v \in {x, y, z} : IsFinite(VLengthSquared(v))
              Steps(x, y, z, nx, ny, nz) ==
                /\ nx = VNormalized(x)
                /\ ny = VNormalized(VSub(y, VScale(nx, VDot(nx, y))))
                /\ nz = VNormalized(VSub(VSub(z, VScale(nx, VDot(nx, z))),
                                         VScale(ny, VDot(ny, z))))
                /\ VLengthSquared(x) = 0 => nx = ZeroVec
                /\ Independent(determinant(basis), x, y, z) =>
                     /\ \A v \in {nx, ny, nz} : Near(VLengthSquared(v), One)
                     /\ Near(VDot(nx, ny), 0)
                     /\ Near(VDot(nx, nz), 0)
                     /\ Near(VDot(ny, nz), 0)
          IN  /\ basis' = basis
              /\ Steps(get_column(basis, 0), get_column(basis, 1),
                       get_column(basis, 2), get_column(ortho', 0),
                       get_column(ortho', 1), get_column(ortho', 2))
     /\ (pc = "orthonormalized" /\ pc' = "orthonormalize") =>
          /\ basis' = ortho
          /\ ortho' = ortho]_vars

\* the skewed Basis of the test suite, made orthonormal both ways
C9_Witness ==
  /\ pc = "orthonormalize"
  /\ ortho = orthonormalized(skewed)
  /\ ortho # skewed
  /\ basis = ortho
  /\ is_orthonormal(ortho)

\* =====================================================================
\* Interpolation between quaternions.
\* =====================================================================
\* ---- inputs: rotations by quarter turns about X (the later ones have a
\* negative w) combined with a rotation about Y, and one quaternion of
\* length 2; the outer control points include a quaternion of length 2.
QuatInputs ==
  {quat_from_euler(Vec3(DivSmall(k * PI, 2), ay, 0)) :
     k \in 0..3, ay \in {0, QuarterPi}}
    \cup {Quat(0, DivSmall(Int2F(12), 10), 0, DivSmall(Int2F(16), 10))}
ControlInputs ==
  {Quat(0, 0, 0, One), quat_from_euler(Vec3(QuarterPi, HalfPi, QuarterPi)),
   Quat(0, Int2F(-2), 0, 0)}

InitQuat ==
  /\ pc = "start"
  /\ q_from \in QuatInputs
  /\ q_to \in QuatInputs
  /\ q_pre \in ControlInputs
  /\ q_post \in ControlInputs
  /\ q_weight \in {0, Half, One}
  /\ slerped = Quat(0, 0, 0, One)
  /\ cubic = [from_q |-> Quat(0, 0, 0, One), to_q |-> Quat(0, 0, 0, One),
              pre_q |-> Quat(0, 0, 0, One), post_q |-> Quat(0, 0, 0, One),
              q1 |-> Quat(0, 0, 0, One), q2 |-> Quat(0, 0, 0, One),
              result |-> Quat(0, 0, 0, One)]
  /\ scalar = One
  /\ from_scaled = IDENTITY
  /\ ni = Quat(0, 0, 0, One)
  /\ mapped = [src |-> Quat(0, 0, 0, One), out |-> Quat(0, 0, 0, One)]
  /\ assigned = Quat(0, 0, 0, One)
  /\ times = [b_t |-> 0, pre_a_t |-> 0, post_b_t |-> 0]
  /\ timed = [from_q |-> Quat(0, 0, 0, One), to_q |-> Quat(0, 0, 0, One),
              pre_q |-> Quat(0, 0, 0, One), post_q |-> Quat(0, 0, 0, One),
              q1 |-> Quat(0, 0, 0, One), q2 |-> Quat(0, 0, 0, One),
              result |-> Quat(0, 0, 0, One)]
  /\ EulerUnused
  /\ BasisUnused

\* q_from.slerp(&q_to, q_weight); `to` is q_to, or q_from turned about X by
\* an angle small enough for the linear branch or just too large for it, or
\* the negation of one of these (nearly antiparallel to q_from)
Slerp ==
  /\ pc = "start"
  /\ \E to \in {q_to} \cup
               {QMul(q_from, quat_from_euler(Vec3(a, 0, 0))) : a \in {33554, 167772}}
               \cup
               {QNeg(QMul(q_from, quat_from_euler(Vec3(a, 0, 0)))) :
                  a \in {33554, 167772}} :
       /\ q_to' = to
       /\ slerped' = slerp(q_from, to, q_weight)
  /\ pc' = "slerped"
  /\ UNCHANGED <<q_from, q_pre, q_post, q_weight, cubic, scalar, from_scaled,
                 ni, mapped, assigned, times, timed, eulerVars, basisVars>>

\* q_from.spherical_cubic_interpolate(&q_to, &q_pre, &q_post, q_weight)
SphericalCubicInterpolate ==
  /\ pc = "start"
  /\ cubic' = spherical_cubic_interpolate(q_from, q_to, q_pre, q_post, q_weight)
  /\ pc' = "cubic"
  /\ UNCHANGED <<q_from, q_to, q_pre, q_post, q_weight, slerped, scalar, from_scaled,
                 ni, mapped, assigned, times, timed, eulerVars, basisVars>>

\* Basis::from(&(c * q_from))
ScaledToBasis ==
  /\ pc = "start"
  /\ \E c \in {-One, Int2F(2), Int2F(-3), Half} :
       /\ scalar' = c
       /\ from_scaled' = set_quaternion(Quat(FMul(q_from.x, c),
              FMul(q_from.y, c), FMul(q_from.z, c), FMul(q_from.w, c)))
  /\ pc' = "scaled"
  /\ UNCHANGED <<q_from, q_to, q_pre, q_post, q_weight, slerped, cubic, ni,
                 mapped, assigned, times, timed, eulerVars, basisVars>>

\* q_from.slerp_ni(&q_to, q_weight); `to` is q_to, q_from itself or turned
\* about X by a small angle (inside and outside the short circuit), or the
\* negation of one of these
SlerpNi ==
  /\ pc = "start"
  /\ \E to \in {q_to} \cup
               {QMul(q_from, quat_from_euler(Vec3(a, 0, 0))) :
                  a \in {0, 16777, 24576, 33554, 167772}}
               \cup
               {QNeg(QMul(q_from, quat_from_euler(Vec3(a, 0, 0)))) :
                  a \in {0, 16777, 24576, 33554, 167772}} :
       /\ q_to' = to
       /\ ni' = slerp_ni(q_from, to, q_weight)
  /\ pc' = "slerp_ni"
  /\ UNCHANGED <<q_from, q_pre, q_post, q_weight, slerped, cubic, scalar,
                 from_scaled, mapped, assigned, times, timed, eulerVars,
                 basisVars>>

\* src.log(); src is q_from, or q_from turned about X by a small angle
\* (w within CMP_EPSILON of 1, and just outside)
Log ==
  /\ pc = "start"
  /\ \E src \in {q_from} \cup
                {QMul(q_from, quat_from_euler(Vec3(a, 0, 0))) :
                   a \in {33554, 76000, 167772}} :
       mapped' = [src |-> src, out |-> log(src)]
  /\ pc' = "log"
  /\ UNCHANGED <<q_from, q_to, q_pre, q_post, q_weight, slerped, cubic,
                 scalar, from_scaled, ni, assigned, times, timed, eulerVars,
                 basisVars>>

\* src.exp(); src is a logarithm, or a quaternion whose vector part is
\* zero, shorter than CMP_EPSILON, or an axis times an angle
Exp ==
  /\ pc = "start"
  /\ \E src \in {log(q_from), Quat(0, 0, 0, 0), Quat(40, 0, 0, 0),
                 Quat(0, HalfPi, 0, 0), Quat(One, -One, 0, Int2F(5)),
                 Quat(0, 0, -PI, One)} :
       mapped' = [src |-> src, out |-> exp(src)]
  /\ pc' = "exp"
  /\ UNCHANGED <<q_from, q_to, q_pre, q_post, q_weight, slerped, cubic,
                 scalar, from_scaled, ni, assigned, times, timed, eulerVars,
                 basisVars>>

NextQuat ==
  \/ Slerp
  \/ SphericalCubicInterpolate

SpecQuat == InitQuat /\ [][NextQuat]_vars

\* =====================================================================
\* Further operations on quaternions: products, exp and log, slerp_ni and
\* the interpolation in time.
\* =====================================================================
InitOps ==
  /\ pc = "start"
  /\ q_from \in QuatInputs
  /\ q_to \in {quat_from_euler(Vec3(DivSmall(k * PI, 2), 0, 0)) : k \in {0, 2, 3}}
  /\ q_pre \in {Quat(0, 0, 0, One), Quat(0, Int2F(-2), 0, 0)}
  /\ q_post \in {quat_from_euler(Vec3(QuarterPi, HalfPi, QuarterPi)),
                 Quat(0, Int2F(-2), 0, 0)}
  /\ q_weight \in {Half, One}
  /\ slerped = Quat(0, 0, 0, One)
  /\ cubic = [from_q |-> Quat(0, 0, 0, One), to_q |-> Quat(0, 0, 0, One),
              pre_q |-> Quat(0, 0, 0, One), post_q |-> Quat(0, 0, 0, One),
              q1 |-> Quat(0, 0, 0, One), q2 |-> Quat(0, 0, 0, One),
              result |-> Quat(0, 0, 0, One)]
  /\ scalar = One
  /\ from_scaled = IDENTITY
  /\ ni = Quat(0, 0, 0, One)
  /\ mapped = [src |-> Quat(0, 0, 0, One), out |-> Quat(0, 0, 0, One)]
  /\ assigned = Quat(0, 0, 0, One)
  /\ times = [b_t |-> 0, pre_a_t |-> 0, post_b_t |-> 0]
  /\ timed = [from_q |-> Quat(0, 0, 0, One), to_q |-> Quat(0, 0, 0, One),
              pre_q |-> Quat(0, 0, 0, One), post_q |-> Quat(0, 0, 0, One),
              q1 |-> Quat(0, 0, 0, One), q2 |-> Quat(0, 0, 0, One),
              result |-> Quat(0, 0, 0, One)]
  /\ EulerUnused
  /\ BasisUnused

\* let mut lhs = q_from; lhs *= q_to: each component is assigned in turn, and
\* the later right-hand sides read the components already assigned
MulAssign ==
  /\ pc = "start"
  /\ assigned' =
       LET rhs == q_to
           W(x, y, z) ==
             Quat(x, y, z,
                  FSub(FSub(FSub(FMul(q_from.w, rhs.w), FMul(x, rhs.x)),
                            FMul(y, rhs.y)),
                       FMul(z, rhs.z)))
           Z(x, y) ==
             W(x, y, FSub(FAdd(FAdd(FMul(q_from.w, rhs.z), FMul(q_from.z, rhs.w)),
                               FMul(x, rhs.y)),
                          FMul(y, rhs.x)))
           Y(x) ==
             Z(x, FSub(FAdd(FAdd(FMul(q_from.w, rhs.y), FMul(q_from.y, rhs.w)),
                            FMul(q_from.z, rhs.x)),
                       FMul(x, rhs.z)))
       IN  Y(FSub(FAdd(FAdd(FMul(q_from.w, rhs.x), FMul(q_from.x, rhs.w)),
                       FMul(q_from.y, rhs.z)),
                  FMul(q_from.z, rhs.y)))
  /\ pc' = "mul_assign"
  /\ UNCHANGED <<q_from, q_to, q_pre, q_post, q_weight, slerped, cubic,
                 scalar, from_scaled, ni, mapped, times, timed, eulerVars,
                 basisVars>>

\* q_from.spherical_cubic_interpolate_in_time(&q_to, &q_pre, &q_post,
\*     q_weight, b_t, pre_a_t, post_b_t); the times are distinct and
\* increasing, or make one or more of the divisors zero
SphericalCubicInterpolateInTime ==
  /\ pc = "start"
  /\ \E t \in {<<One, -One, Int2F(2)>>, <<0, 0, 0>>, <<One, 0, One>>,
               <<One, One, 0>>, <<0, -One, Int2F(2)>>} :
       /\ times' = [b_t |-> t[1], pre_a_t |-> t[2], post_b_t |-> t[3]]
       /\ timed' = spherical_cubic_interpolate_in_time(q_from, q_to, q_pre,
                     q_post, q_weight, t[1], t[2], t[3])
  /\ pc' = "cubic_in_time"
  /\ UNCHANGED <<q_from, q_to, q_pre, q_post, q_weight, slerped, cubic,
                 scalar, from_scaled, ni, mapped, assigned, eulerVars,
                 basisVars>>

NextOps ==
  \/ ScaledToBasis
  \/ SlerpNi
  \/ Log
  \/ Exp
  \/ MulAssign
  \/ SphericalCubicInterpolate
  \/ SphericalCubicInterpolateInTime

SpecOps == InitOps /\ [][NextOps]_vars

\* ---------------------------------------------------------------------
\* C5 as stated: for unit quaternions a and b, a.slerp(b, 0) equals a and
\* a.slerp(b, 1) equals b, component by component within CMP_EPSILON.
C5_SlerpEndpoints ==
  LET Unit(q) ==
        is_equal_approx_with_tolerance(QLengthSquared(q), One, UNIT_EPSILON)
      Near(p, q) ==
        \A k \in QAxes : FLt(FAbs(FSub(p[k], q[k])), CMP_EPSILON)
  IN  (pc = "slerped" /\ Unit(q_from) /\ Unit(q_to)) =>
        /\ q_weight = 0 => Near(slerped, q_from)
        /\ q_weight = One => Near(slerped, q_to)

\* C5, amended: for unit quaternions a and b, a.slerp(b, 0) equals a, and
\* a.slerp(b, 1) equals b when a.dot(b) >= 0 and -b when a.dot(b) < 0,
\* component by component within CMP_EPSILON.
C5_SlerpEndpointsShortestPath ==
  LET Unit(q) ==
        is_equal_approx_with_tolerance(QLengthSquared(q), One, UNIT_EPSILON)
      Near(p, q) ==
        \A k \in QAxes : FLt(FAbs(FSub(p[k], q[k])), CMP_EPSILON)
  IN  (pc = "slerped" /\ Unit(q_from) /\ Unit(q_to)) =>
        /\ q_weight = 0 => Near(slerped, q_from)
        /\ (q_weight = One /\ FGe(QDot(q_from, q_to), 0))
             => Near(slerped, q_to)
        /\ (q_weight = One /\ FLt(QDot(q_from, q_to), 0))
             => Near(slerped, QNeg(q_to))

\* two unit quaternions more than a quarter turn apart, at weight 1
C5_Witness ==
  /\ pc = "slerped"
  /\ q_weight = One
  /\ is_equal_approx_with_tolerance(QLengthSquared(q_from), One, UNIT_EPSILON)
  /\ is_equal_approx_with_tolerance(QLengthSquared(q_to), One, UNIT_EPSILON)
  /\ FLt(QDot(q_from, q_to), -Half)
  /\ slerped = QNeg(q_to)
  /\ slerped # q_to

\* ---------------------------------------------------------------------
\* C6: spherical_cubic_interpolate at weight 0 returns the aligned form of
\* self (the rotation quaternion of its Basis), and at weight 1 the aligned
\* form of b (the rotation quaternion of its Basis, negated when its dot
\* product with the aligned self is negative), whatever pre_a and post_b
\* are.  The component-wise cubic returns its `from` argument at weight 0
\* and its `to` argument at weight 1 (to within CMP_EPSILON), so at weight 0
\* the self-space pass gives the aligned self, and at weight 1 the b-space
\* pass gives the aligned b.
C6_CubicEndpoints ==
  pc = "cubic" =>
    LET Near(p, q) ==
          \A k \in QAxes : FLt(FAbs(FSub(p[k], q[k])), CMP_EPSILON)
        Ends(self_q, b_q) ==
          /\ cubic.from_q = self_q
          /\ cubic.to_q \in {b_q, QNeg(b_q)}
          /\ FLt(QDot(self_q, b_q), 0) => cubic.to_q = QNeg(b_q)
          /\ FGt(QDot(self_q, b_q), 0) => cubic.to_q = b_q
          /\ q_weight = 0 =>
               /\ cubic.q1 = cubic.from_q
               /\ Near(cubic.result, cubic.from_q)
          /\ q_weight = One =>
               /\ cubic.q2 = cubic.to_q
               /\ Near(cubic.result, cubic.to_q)
        Samples == {-Int2F(3), -Half, 0, One, Int2F(2)}
    IN  /\ Ends(get_rotation_quaternion(set_quaternion(q_from)),
                get_rotation_quaternion(set_quaternion(q_to)))
        /\ (q_from = Quat(0, 0, 0, One) /\ q_to = Quat(0, 0, 0, One)) =>
             \A from, to, pre, post \in Samples :
                /\ cubic_interpolate(from, to, pre, post, 0) = from
                /\ FLt(FAbs(FSub(cubic_interpolate(from, to, pre, post, One),
                                 to)), CMP_EPSILON)

\* weight 1 with both outer control points in play: self and b are changed
\* by the alignment, b is flipped, and the self-space pass has moved off self
C6_Witness ==
  /\ pc = "cubic"
  /\ q_weight = One
  /\ q_pre # Quat(0, 0, 0, One)
  /\ q_post \notin {q_pre, Quat(0, 0, 0, One)}
  /\ cubic.from_q # q_from
  /\ cubic.to_q = QNeg(get_rotation_quaternion(set_quaternion(q_to)))
  /\ cubic.q1 # cubic.from_q
  /\ cubic.result = cubic.to_q

\* ---------------------------------------------------------------------
\* C11: Quaternion::from(&Basis) of a basis that is not orthonormalized
\* fails and returns Quaternion::IDENTITY.
C11_NotOrthonormalGivesIdentity ==
  (pc = "quaternion" /\ ~is_orthonormal(basis))
     => quaternion = Quat(0, 0, 0, One)

\* ---------------------------------------------------------------------
\* C12 as stated: Basis::from((axis, angle)) with an axis of length zero
\* divides by that length, and the Basis it returns has a NaN or infinite
\* entry.
C12_ZeroAxisGivesNaN ==
  (pc = "from_axis_angle" /\ given.axis = ZeroVec)
     => \E r \in Axes : ~VIsFinite(basis[r])

\* C12, amended: Basis::from((axis, angle)) never divides by the length of
\* the axis.  With an axis of length zero it returns, without failing, the
\* finite diagonal matrix cos(angle) * IDENTITY; with any finite axis,
\* however short, every entry of the result is finite.
C12_ZeroAxisGivesScaledIdentity ==
  pc = "from_axis_angle" =>
    /\ \A r \in Axes : VIsFinite(basis[r])
    /\ given.axis = ZeroVec =>
         basis = [r \in Axes |->
                    [c \in Axes |-> IF r = c THEN FCos(given.angle) ELSE 0]]

\* an axis of length zero and an angle whose cosine is neither 0 nor 1
C12_Witness ==
  /\ pc = "from_axis_angle"
  /\ given.axis = ZeroVec
  /\ given.angle = QuarterPi
  /\ basis.x.x = FCos(QuarterPi)
  /\ basis # IDENTITY

\* ---------------------------------------------------------------------
\* C13: in the angle-pi case of get_axis_angle, with xx = (x.x + 1) / 2,
\* yy = (y.y + 1) / 2 and zz = (z.z + 1) / 2, the axis is built from x iff
\* xx > yy and xx > zz, otherwise from y iff yy > zz, otherwise from z.  On
\* the ties: xx = yy > zz takes y, xx = zz >= yy takes z and xx = yy = zz
\* takes z.  The formula built from a term puts the root of the term in
\* that component and the averaged off-diagonal pair over the root in the
\* other two, or the fixed vector when the term is below CMP_EPSILON.
C13_DominantAxisTieBreak ==
  (pc = "axis_angle" /\ axis_angle.branch = "pi") =>
    LET Term(a) == FDiv(FAdd(basis[a][a], One), Int2F(2))
        Pair(a, k) == FDiv(FAdd(basis[a][k], basis[k][a]), Int2F(4))
        From(a) ==
          IF FLt(Term(a), CMP_EPSILON)
          THEN [k \in Axes |-> IF k = a THEN 0 ELSE FRAC_1_SQRT_2]
          ELSE [k \in Axes |->
                  IF k = a THEN FSqrt(Term(a))
                  ELSE FDiv(Pair(a, k), FSqrt(Term(a)))]
        Rule(xx, yy, zz) ==
          /\ axis_angle.axis =
               From(IF xx > yy /\ xx > zz THEN "x"
                    ELSE IF yy > zz THEN "y" ELSE "z")
          /\ (xx = yy /\ yy > zz) => axis_angle.axis = From("y")
          /\ (xx = zz /\ zz >= yy) => axis_angle.axis = From("z")
          /\ (xx = yy /\ yy = zz) => axis_angle.axis = From("z")
          /\ (yy = zz /\ zz > xx) => axis_angle.axis = From("z")
    IN  Rule(Term("x"), Term("y"), Term("z"))

\* xx = yy > zz with an axis that the formula built from x would not give
C13_Witness ==
  /\ pc = "axis_angle"
  /\ axis_angle.branch = "pi"
  /\ basis.x.x = basis.y.y
  /\ basis.y.y > basis.z.z
  /\ axis_angle.axis = Vec3(DivSmall(One, 4), One, 0)

\* ---------------------------------------------------------------------
\* C14: in the angle-pi case of get_axis_angle no root of a negative value
\* is taken and nothing is divided by a value near zero.  When the selected
\* term is below CMP_EPSILON (negative included) the axis is the fixed
\* vector: 0 in the selected component, 1/sqrt(2) in the other two.
\* Otherwise the term is at least CMP_EPSILON, the selected component is its
\* root, and the other two are the averaged off-diagonal pairs divided by
\* that root; no component is NaN.
C14_NoNearZeroDivision ==
  (pc = "axis_angle" /\ axis_angle.branch = "pi") =>
    LET Term(a) == FDiv(FAdd(basis[a][a], One), Int2F(2))
        Pair(a, k) == FDiv(FAdd(basis[a][k], basis[k][a]), Int2F(4))
        Selected ==
          IF Term("x") > Term("y") /\ Term("x") > Term("z") THEN "x"
          ELSE IF Term("y") > Term("z") THEN "y" ELSE "z"
        Safe(a, axis) ==
          /\ \A k \in Axes : ~IsNaN(axis[k])
          /\ Term(a) < CMP_EPSILON =>
               /\ axis[a] = 0
               /\ \A k \in Axes \ {a} : axis[k] = FRAC_1_SQRT_2
          /\ Term(a) >= CMP_EPSILON =>
               /\ axis[a] = FSqrt(Term(a))
               /\ axis[a] >= FSqrt(CMP_EPSILON)
               /\ axis[a] > 0
               /\ \A k \in Axes \ {a} : axis[k] = FDiv(Pair(a, k), axis[a])
    IN  Safe(Selected, axis_angle.axis)

\* a largest term that is negative, and one that is positive but below
\* CMP_EPSILON
C14_Witness ==
  /\ pc = "axis_angle"
  /\ axis_angle.branch = "pi"
  /\ \/ basis.x.x < -One /\ basis.x.x > basis.y.y /\ basis.x.x > basis.z.z
     \/ basis.y.y = 80 - One
  /\ axis_angle.axis \in {Vec3(0, FRAC_1_SQRT_2, FRAC_1_SQRT_2),
                          Vec3(FRAC_1_SQRT_2, 0, FRAC_1_SQRT_2)}

C16_EulerOrderIsProductOrder ==
  (pc = "encoded" /\ order # "None") =>
    LET About(a, c, s) ==
          CASE a = "x" -> new_from_floats(One, 0, 0, 0, c, FNeg(s), 0, s, c)
            [] a = "y" -> new_from_floats(c, 0, s, 0, One, 0, FNeg(s), 0, c)
            [] a = "z" -> new_from_floats(c, FNeg(s), 0, s, c, 0, 0, 0, One)
        Mat(e, a) == About(a, FCos(e[a]), FSin(e[a]))
        Spelled(o) ==
          CASE o = "XYZ" -> <<"x", "y", "z">> [] o = "XZY" -> <<"x", "z", "y">>
            [] o = "YXZ" -> <<"y", "x", "z">> [] o = "YZX" -> <<"y", "z", "x">>
            [] o = "ZXY" -> <<"z", "x", "y">> [] o = "ZYX" -> <<"z", "y", "x">>
        Product(e, l) ==
          BasisMul(BasisMul(Mat(e, l[1]), Mat(e, l[2])), Mat(e, l[3]))
        Near(p, q) ==
          \A r \in Axes, c \in Axes :
             FLt(FAbs(FSub(p[r][c], q[r][c])), CMP_EPSILON)
        Distinct(e) ==
          \A o1 \in EulerOrders : \A o2 \in EulerOrders \ {o1} :
             ~Near(Product(e, Spelled(o1)), Product(e, Spelled(o2)))
    IN  /\ Near(to_rotation, Product(original_euler, Spelled(order)))
        /\ original_euler = Vec3(QuarterPi, QuarterPi, QuarterPi)
             => Distinct(original_euler)

\* three angles of 45 degrees in the order ZXY: the result differs from the
\* product in every other order
C16_Witness ==
  /\ pc = "encoded"
  /\ order = "ZXY"
  /\ original_euler = Vec3(QuarterPi, QuarterPi, QuarterPi)
  /\ \A o \in EulerOrders \ {"ZXY"} : to_rotation # set_euler(original_euler, o)

\* ---------------------------------------------------------------------
\* C17: gimbal lock in get_euler.  With m the entry that holds the sine of
\* the middle angle of the order (XYZ: x.z, XZY: x.y, YXZ: y.z, YZX: y.x,
\* ZXY: z.y, ZYX: z.x), the regular branch is taken iff
\* -(1 - CMP_EPSILON) < m < 1 - CMP_EPSILON.  Otherwise the middle angle is
\* exactly +pi/2 or -pi/2, its sign following the sign m has in the order's
\* matrix, and one of the other two angles is exactly 0.  asin is evaluated
\* in the regular branch only, on a value strictly between -1 and 1, and no
\* angle returned is NaN.
C17_GimbalLockDetection ==
  pc = "decoded" =>
    LET Middle(o) ==
          CASE o = "XYZ" -> [m |-> to_rotation.x.z, angle |-> "y", sign |-> 1]
            [] o = "XZY" -> [m |-> to_rotation.x.y, angle |-> "z", sign |-> -1]
            [] o = "YXZ" -> [m |-> to_rotation.y.z, angle |-> "x", sign |-> -1]
            [] o = "YZX" -> [m |-> to_rotation.y.x, angle |-> "z", sign |-> 1]
            [] o = "ZXY" -> [m |-> to_rotation.z.y, angle |-> "x", sign |-> 1]
            [] o = "ZYX" -> [m |-> to_rotation.z.x, angle |-> "y", sign |-> -1]
        Branches(e, d) ==
          /\ \A k \in Axes : ~IsNaN(e[k])
          /\ (-(One - CMP_EPSILON) < d.m /\ d.m < One - CMP_EPSILON) =>
               /\ -One < d.m /\ d.m < One
               /\ \/ e[d.angle] = FAsin(d.sign * d.m)
                  \/ /\ order \in {"XYZ", "YXZ", "None"}
                     /\ e = [ZeroVec EXCEPT ![d.angle] = e[d.angle]]
               /\ e[d.angle] \notin {HalfPi, -HalfPi}
          /\ d.m >= One - CMP_EPSILON =>
               /\ e[d.angle] = d.sign * HalfPi
               /\ \E k \in Axes \ {d.angle} : e[k] = 0
          /\ d.m <= -(One - CMP_EPSILON) =>
               /\ e[d.angle] = -(d.sign * HalfPi)
               /\ \E k \in Axes \ {d.angle} : e[k] = 0
    IN  Branches(euler_from_rotation,
                 Middle(IF order # "None" THEN order ELSE "YXZ"))

\* an entry between 1 - CMP_EPSILON and 1: the angle is not 90 degrees, and
\* the gimbal branch is taken
C17_Witness ==
  /\ pc = "decoded"
  /\ order = "ZYX"
  /\ to_rotation.z.x > -One
  /\ to_rotation.z.x <= -(One - CMP_EPSILON)
  /\ euler_from_rotation.y = HalfPi
  /\ euler_from_rotation.x = 0
  /\ euler_from_rotation.z # 0

\* ---------------------------------------------------------------------
\* C18 as stated: in the gimbal-lock branches of get_euler, for each of the
\* six orders, the third angle is 0 and the recovered angle has opposite
\* signs in the two branches: for the same matrix entries one branch
\* returns atan2(..) and the other -atan2(..).  The other branch is
\* evaluated on the same matrix with the sign of the middle entry changed.
C18_GimbalRecoveredAngleOpposite ==
  pc = "decoded" =>
    LET Slots(o) ==
          CASE o = "XYZ" -> [row |-> "x", col |-> "z", recovered |-> "x", third |-> "z"]
            [] o = "XZY" -> [row |-> "x", col |-> "y", recovered |-> "x", third |-> "y"]
            [] o = "YXZ" -> [row |-> "y", col |-> "z", recovered |-> "y", third |-> "z"]
            [] o = "YZX" -> [row |-> "y", col |-> "x", recovered |-> "x", third |-> "y"]
            [] o = "ZXY" -> [row |-> "z", col |-> "y", recovered |-> "y", third |-> "z"]
            [] o = "ZYX" -> [row |-> "z", col |-> "x", recovered |-> "z", third |-> "x"]
        Other(d) ==
          get_euler([to_rotation EXCEPT ![d.row][d.col] = FNeg(@)], order)
        Gimbal(d) ==
          FAbs(to_rotation[d.row][d.col]) >= One - CMP_EPSILON =>
            /\ euler_from_rotation[d.third] = 0
            /\ Other(d)[d.recovered] = FNeg(euler_from_rotation[d.recovered])
    IN  Gimbal(Slots(IF order # "None" THEN order ELSE "YXZ"))

\* C18, amended: in the gimbal-lock branches of get_euler, for each of the
\* six orders, the third angle (the one that is neither the middle angle
\* nor the recovered one) is 0.  For the same matrix entries the recovered
\* angle is the same in the +90 and the -90 degrees branch for the orders
\* XYZ, XZY, YZX, ZXY and ZYX; only for YXZ does one branch return
\* atan2(..) and the other -atan2(..).
C18_GimbalRecoveredAngle ==
  pc = "decoded" =>
    LET Slots(o) ==
          CASE o = "XYZ" -> [row |-> "x", col |-> "z", recovered |-> "x", third |-> "z"]
            [] o = "XZY" -> [row |-> "x", col |-> "y", recovered |-> "x", third |-> "y"]
            [] o = "YXZ" -> [row |-> "y", col |-> "z", recovered |-> "y", third |-> "z"]
            [] o = "YZX" -> [row |-> "y", col |-> "x", recovered |-> "x", third |-> "y"]
            [] o = "ZXY" -> [row |-> "z", col |-> "y", recovered |-> "y", third |-> "z"]
            [] o = "ZYX" -> [row |-> "z", col |-> "x", recovered |-> "z", third |-> "x"]
        Other(d) ==
          get_euler([to_rotation EXCEPT ![d.row][d.col] = FNeg(@)], order)
        Gimbal(d) ==
          FAbs(to_rotation[d.row][d.col]) >= One - CMP_EPSILON =>
            /\ euler_from_rotation[d.third] = 0
            /\ Other(d)[d.third] = 0
            /\ Other(d)[d.recovered] =
                 IF order \in {"YXZ", "None"}
                 THEN FNeg(euler_from_rotation[d.recovered])
                 ELSE euler_from_rotation[d.recovered]
    IN  Gimbal(Slots(IF order # "None" THEN order ELSE "YXZ"))

\* gimbal lock in the order ZXY with a recovered angle that is not 0: the
\* other branch returns the same angle
C18_Witness ==
  /\ pc = "decoded"
  /\ order = "ZXY"
  /\ to_rotation.z.y >= One - CMP_EPSILON
  /\ euler_from_rotation.x = HalfPi
  /\ euler_from_rotation.y \notin {0, PI, -PI}
  /\ euler_from_rotation.z = 0
  /\ get_euler([to_rotation EXCEPT !.z.y = FNeg(@)], order)
       = [euler_from_rotation EXCEPT !.x = -HalfPi]

\* ---------------------------------------------------------------------
\* C19 as stated: each of the six formula sets of get_euler special-cases,
\* in its regular branch, a matrix that is exactly a pure rotation about
\* one axis (the entries that cross that axis are exactly 0 and its
\* diagonal entry is exactly 1) and returns a triple whose only non-zero
\* angle is taken directly from atan2 (compared to within the tolerance of
\* is_equal_approx).  The axis is the middle axis of the order, the one the
\* two formula sets that have the case test for.
C19_PureRotationSpecialCased ==
  pc = "decoded" =>
    LET Slots(o) ==
          CASE o = "XYZ" -> [row |-> "x", col |-> "z", axis |-> "y", sign |-> 1]
            [] o = "XZY" -> [row |-> "x", col |-> "y", axis |-> "z", sign |-> -1]
            [] o = "YXZ" -> [row |-> "y", col |-> "z", axis |-> "x", sign |-> -1]
            [] o = "YZX" -> [row |-> "y", col |-> "x", axis |-> "z", sign |-> 1]
            [] o = "ZXY" -> [row |-> "z", col |-> "y", axis |-> "x", sign |-> 1]
            [] o = "ZYX" -> [row |-> "z", col |-> "x", axis |-> "y", sign |-> -1]
        Pure(b, a) ==
          /\ b[a][a] = One
          /\ \A k \in Axes \ {a} : b[a][k] = 0 /\ b[k][a] = 0
        Single(b, d) ==
          (FAbs(b[d.row][d.col]) < One - CMP_EPSILON /\ Pure(b, d.axis)) =>
             \A k \in Axes :
                is_equal_approx(
                  euler_from_rotation[k],
                  IF k = d.axis
                  THEN FAtan2(d.sign * b[d.row][d.col], b[d.row][d.row])
                  ELSE 0)
    IN  Single(to_rotation, Slots(IF order # "None" THEN order ELSE "YXZ"))

\* C19, amended: two of the six formula sets of get_euler, XYZ and YXZ,
\* special-case in their regular branch a matrix that is exactly a pure
\* rotation about the middle axis of the order (Y for XYZ, X for YXZ) and
\* return a triple whose only non-zero angle is taken directly from atan2.
\* The other four, XZY, YZX, ZXY and ZYX, have no such case: in the regular
\* branch their middle angle is always the asin of the middle entry.
C19_PureRotationSpecialCasedXYZAndYXZ ==
  pc = "decoded" =>
    LET Slots(o) ==
          CASE o = "XYZ" -> [row |-> "x", col |-> "z", axis |-> "y", sign |-> 1]
            [] o = "XZY" -> [row |-> "x", col |-> "y", axis |-> "z", sign |-> -1]
            [] o = "YXZ" -> [row |-> "y", col |-> "z", axis |-> "x", sign |-> -1]
            [] o = "YZX" -> [row |-> "y", col |-> "x", axis |-> "z", sign |-> 1]
            [] o = "ZXY" -> [row |-> "z", col |-> "y", axis |-> "x", sign |-> 1]
            [] o = "ZYX" -> [row |-> "z", col |-> "x", axis |-> "y", sign |-> -1]
        Pure(b, a) ==
          /\ b[a][a] = One
          /\ \A k \in Axes \ {a} : b[a][k] = 0 /\ b[k][a] = 0
        Single(b, d) ==
          FAbs(b[d.row][d.col]) < One - CMP_EPSILON =>
            IF order \in {"XYZ", "YXZ", "None"}
            THEN Pure(b, d.axis) =>
                   euler_from_rotation =
                     [ZeroVec EXCEPT ![d.axis] =
                        FAtan2(d.sign * b[d.row][d.col], b[d.row][d.row])]
            ELSE euler_from_rotation[d.axis] = FAsin(d.sign * b[d.row][d.col])
    IN  Single(to_rotation, Slots(IF order # "None" THEN order ELSE "YXZ"))

\* a rotation by 135 degrees about Y alone, decoded in the order XYZ: the
\* angle comes back as it went in, which asin could not return
C19_Witness ==
  /\ pc = "decoded"
  /\ order = "XYZ"
  /\ original_euler = Vec3(0, DivSmall(3 * PI, 4), 0)
  /\ to_rotation.y = Vec3(0, One, 0)
  /\ euler_from_rotation.x = 0
  /\ euler_from_rotation.z = 0
  /\ euler_from_rotation.y > HalfPi

\* ---------------------------------------------------------------------
\* C20: get_quaternion.  With M[r][c] the entry of row r and column c and
\* trace = M[0][0] + M[1][1] + M[2][2]:
\* if trace > 0, then s = sqrt(trace + 1), w = s / 2 and (x, y, z) =
\* (z.y - y.z, x.z - z.x, y.x - x.y) * (0.5 / s);
\* otherwise i = (xx < yy ? (yy < zz ? 2 : 1) : (xx < zz ? 2 : 0)) is the
\* index of a largest diagonal entry, j = (i + 1) % 3, k = (i + 2) % 3 make
\* with i a permutation of {0, 1, 2}, s = sqrt(M[i][i] - M[j][j] - M[k][k] + 1),
\* component i is s / 2, w is (M[k][j] - M[j][k]) * 0.5 / s, component j is
\* (M[j][i] + M[i][j]) * 0.5 / s and component k is (M[k][i] + M[i][k]) * 0.5 / s.
C20_GetQuaternionBranches ==
  pc = "quaternion" =>
    LET M(r, c) == basis[AxisOf(r)][AxisOf(c)]
        Component(n) == quaternion[AxisOf(n)]
        Positive(s) ==
          /\ quaternion.w = FMul(s, Half)
          /\ quaternion.x = FMul(FSub(M(2, 1), M(1, 2)), FDiv(Half, s))
          /\ quaternion.y = FMul(FSub(M(0, 2), M(2, 0)), FDiv(Half, s))
          /\ quaternion.z = FMul(FSub(M(1, 0), M(0, 1)), FDiv(Half, s))
        Written(i, j, k, s) ==
          /\ Component(i) = FMul(s, Half)
          /\ quaternion.w = FMul(FSub(M(k, j), M(j, k)), FDiv(Half, s))
          /\ Component(j) = FMul(FAdd(M(j, i), M(i, j)), FDiv(Half, s))
          /\ Component(k) = FMul(FAdd(M(k, i), M(i, k)), FDiv(Half, s))
        Largest(i, j, k) ==
          /\ {i, j, k} = {0, 1, 2}
          /\ \A n \in {0, 1, 2} : M(i, i) >= M(n, n)
          /\ Written(i, j, k,
                     FSqrt(FAdd(FSub(FSub(M(i, i), M(j, j)), M(k, k)), One)))
        Index(i) == Largest(i, (i + 1) % 3, (i + 2) % 3)
    IN  IF FGt(FAdd(FAdd(M(0, 0), M(1, 1)), M(2, 2)), 0)
        THEN Positive(FSqrt(FAdd(FAdd(FAdd(M(0, 0), M(1, 1)), M(2, 2)), One)))
        ELSE Index(IF M(0, 0) < M(1, 1)
                   THEN (IF M(1, 1) < M(2, 2) THEN 2 ELSE 1)
                   ELSE (IF M(0, 0) < M(2, 2) THEN 2 ELSE 0))

\* a rotation whose trace is not positive and whose largest diagonal entry
\* is the middle one: no component of the quaternion is 0
C20_Witness ==
  /\ pc = "quaternion"
  /\ is_rotation(basis)
  /\ FAdd(FAdd(basis.x.x, basis.y.y), basis.z.z) <= 0
  /\ basis.y.y > basis.x.x
  /\ basis.y.y > basis.z.z
  /\ quaternion.y > Half
  /\ \A k \in QAxes : quaternion[k] # 0

\* ---------------------------------------------------------------------
\* C21: Quaternion -> Basis scales the products by 2 / |q|^2, so for a
\* quaternion q of non-zero norm and a non-zero float c, Basis::from(c * q)
\* equals Basis::from(q) (entry by entry, to within CMP_EPSILON), and q and
\* -q give exactly the same Basis.
C21_ScaleInvariantBasis ==
  (pc = "scaled" /\ scalar # 0 /\ QLengthSquared(q_from) # 0) =>
     /\ \A r \in Axes : \A c \in Axes :
          FLt(FAbs(FSub(from_scaled[r][c], set_quaternion(q_from)[r][c])),
              CMP_EPSILON)
     /\ scalar = -One =>
          /\ from_scaled = set_quaternion(q_from)
          /\ from_scaled = set_quaternion(QNeg(q_from))

\* a quaternion of length 2 scaled by -3: the Basis is the rotation of the
\* unit quaternion, not the unnormalized products
C21_Witness ==
  /\ pc = "scaled"
  /\ scalar = Int2F(-3)
  /\ FGt(QLengthSquared(q_from), Int2F(3))
  /\ is_rotation(from_scaled)
  /\ from_scaled # IDENTITY

\* ---------------------------------------------------------------------
\* C22: slerp, with cosom = dot(self, to): `to` and cosom are negated iff
\* cosom < 0; the coefficients are (1 - t, t) iff 1 - cosom <= CMP_EPSILON,
\* and otherwise sin((1 - t) w) / sin(w) and sin(t w) / sin(w) with
\* w = acos(cosom).  So acos is only applied to a value in
\* [0, 1 - CMP_EPSILON), and the divisor sin(w) is a number that is not
\* zero and not within CMP_EPSILON of zero, whether the inputs are nearly
\* identical, nearly antiparallel or not normalized.
C22_SlerpBranches ==
  pc = "slerped" =>
    LET Blend(to1, scale0, scale1) ==
          [k \in QAxes |->
             FAdd(FMul(scale0, q_from[k]), FMul(scale1, to1[k]))]
        Standard(to1, cosom, w) ==
          /\ cosom >= 0
          /\ cosom < One - CMP_EPSILON
          /\ w # NaN
          /\ FSin(w) > CMP_EPSILON
          /\ ~is_zero_approx(FSin(w))
          /\ slerped = Blend(to1,
                             FDiv(FSin(FMul(FSub(One, q_weight), w)), FSin(w)),
                             FDiv(FSin(FMul(q_weight, w)), FSin(w)))
        Branch(to1, cosom) ==
          IF FLe(FSub(One, cosom), CMP_EPSILON)
          THEN slerped = Blend(to1, FSub(One, q_weight), q_weight)
          ELSE Standard(to1, cosom, FAcos(cosom))
    IN  IF FLt(QDot(q_from, q_to), 0)
        THEN Branch(QNeg(q_to), FNeg(QDot(q_from, q_to)))
        ELSE Branch(q_to, QDot(q_from, q_to))

\* `to` is nearly antiparallel to self, just far enough from -self for the
\* ratios of sines: the divisor is small but not near zero
C22_Witness ==
  /\ pc = "slerped"
  /\ q_weight = Half
  /\ FLt(QDot(q_from, q_to), 0)
  /\ FGt(FSub(One, FNeg(QDot(q_from, q_to))), CMP_EPSILON)
  /\ FLt(FSub(One, FNeg(QDot(q_from, q_to))), 10 * CMP_EPSILON)
  /\ FLt(FSin(FAcos(FNeg(QDot(q_from, q_to)))), DivSmall(One, 50))
  /\ \A k \in QAxes : IsFinite(slerped[k])

\* ---------------------------------------------------------------------
\* C23: slerp_ni never negates `to`, and returns self exactly, whatever the
\* weight, whenever |dot(self, to)| > 1 - CMP_EPSILON / 10; only otherwise
\* does it interpolate, with theta = acos(dot): acos is applied to a value
\* of [-1, 1] only and the divisor sin(theta) is not zero.
C23_SlerpNiShortCircuit ==
  pc = "slerp_ni" =>
    LET Interpolated(theta) ==
          [k \in QAxes |->
             FAdd(FMul(FMul(FSin(FMul(FSub(One, q_weight), theta)),
                            FDiv(One, FSin(theta))), q_from[k]),
                  FMul(FMul(FSin(FMul(q_weight, theta)),
                            FDiv(One, FSin(theta))), q_to[k]))]
        Dot(dot) ==
          IF FGt(FAbs(dot), FSub(One, FDiv(CMP_EPSILON, Int2F(10))))
          THEN ni = q_from
          ELSE /\ dot >= -One
               /\ dot <= One
               /\ FAcos(dot) # NaN
               /\ FSin(FAcos(dot)) > 0
               /\ ni = Interpolated(FAcos(dot))
    IN  Dot(QDot(q_from, q_to))

\* `to` is on the other hemisphere, outside the short circuit: the result
\* at weight 1 is `to`, not its negation
C23_Witness ==
  /\ pc = "slerp_ni"
  /\ q_weight = One
  /\ FLt(QDot(q_from, q_to), -Half)
  /\ FLt(FAbs(QDot(q_from, q_to)), FSub(One, FDiv(CMP_EPSILON, Int2F(10))))
  /\ \A k \in QAxes : FLt(FAbs(FSub(ni[k], q_to[k])), CMP_EPSILON)
  /\ ni # q_from

\* ---------------------------------------------------------------------
\* C24: exp returns the identity quaternion (0, 0, 0, 1) whenever the
\* length of the vector part is below CMP_EPSILON or the normalized vector
\* part is not of unit length, and otherwise the axis-angle quaternion of
\* (normalized vector part, length): w = cos(length / 2) and the vector part
\* is the normalized vector part times sin(length / 2) over its length.
\* log always returns a quaternion whose w is exactly 0; its axis is the
\* vector part as it is when |w| > 1 - CMP_EPSILON, and the vector part
\* times 1 / sqrt(1 - w^2) only when |w| <= 1 - CMP_EPSILON, where that
\* divisor is a number greater than zero.
C24_ExpLogGuards ==
  LET Vector(q) == Vec3(q.x, q.y, q.z)
      AxisAngle(axis, angle) ==
        /\ mapped.out = quat_from_axis_angle(axis, angle)
        /\ mapped.out.w = FCos(FMul(angle, Half))
        /\ Vector(mapped.out) =
             VScale(axis, FDiv(FSin(FMul(angle, Half)), VLength(axis)))
      Exponential(theta, src_v) ==
        IF FLt(theta, CMP_EPSILON) \/ ~VIsNormalized(src_v)
        THEN mapped.out = Quat(0, 0, 0, One)
        ELSE AxisAngle(src_v, theta)
      Axis(w, divisor) ==
        IF FGt(FAbs(w), FSub(One, CMP_EPSILON))
        THEN Vector(mapped.out) = VScale(Vector(mapped.src), get_angle(mapped.src))
        ELSE /\ divisor # NaN
             /\ divisor > 0
             /\ Vector(mapped.out) =
                  VScale(VScale(Vector(mapped.src), FDiv(One, divisor)),
                         get_angle(mapped.src))
  IN  /\ pc = "exp" =>
           Exponential(VLength(Vector(mapped.src)),
                       VNormalized(Vector(mapped.src)))
      /\ pc = "log" =>
           /\ mapped.out.w = 0
           /\ Axis(mapped.src.w,
                   FSqrt(FSub(One, FMul(mapped.src.w, mapped.src.w))))

\* exp of a vector part shorter than CMP_EPSILON but not zero
C24_Witness ==
  /\ pc = "exp"
  /\ mapped.src # Quat(0, 0, 0, 0)
  /\ FLt(VLength(Vec3(mapped.src.x, mapped.src.y, mapped.src.z)), CMP_EPSILON)
  /\ mapped.out = Quat(0, 0, 0, One)

C28_MulAssignIsProduct ==
  pc = "mul_assign" => assigned = QMul(q_from, q_to)

\* ---------------------------------------------------------------------
\* C29: scaling a Basis by a scalar is entry-wise and keeps the layout:
\* entry (row r, column c) of b * s is s times entry (r, c) of b, as it is
\* after b *= s, and entry (r, c) of b / s is entry (r, c) of b divided by
\* s, as it is after b /= s.
C29_ScalarScalingEntrywise ==
  /\ pc \in {"mul_float", "mul_assign_float"} =>
       \A r \in Axes : \A c \in Axes :
         scaled_basis[r][c] = FMul(basis[r][c], factor)
  /\ pc \in {"div_float", "div_assign_float"} =>
       \A r \in Axes : \A c \in Axes :
         scaled_basis[r][c] = FDiv(basis[r][c], factor)

\* ---------------------------------------------------------------------
\* C30: cubic_interpolate_in_time, as spherical_cubic_interpolate_in_time
\* uses it, never divides by zero: each of its six quotients, over -pre_t,
\* to_t, post_t - to_t, to_t - pre_t, post_t and to_t, is replaced by the
\* fixed weight 0, 0.5, 1, 0, 1 and 0.5 respectively exactly when its
\* divisor is zero, so every weight is a finite number and the two
\* interpolated quaternions are the ones these weights give.
C30_NoDivisionByZero ==
  pc = "cubic_in_time" =>
    LET t == FAdd(0, FMul(FSub(times.b_t, 0), q_weight))
        Weight(num, divisor, fixed) ==
          IF divisor = 0 THEN fixed ELSE FDiv(num, divisor)
        W == <<Weight(FSub(t, times.pre_a_t), FNeg(times.pre_a_t), 0),
               Weight(t, times.b_t, Half),
               Weight(FSub(t, times.b_t), FSub(times.post_b_t, times.b_t), One),
               Weight(FSub(t, times.pre_a_t), FSub(times.b_t, times.pre_a_t), 0),
               Weight(t, times.post_b_t, One),
               Weight(t, times.b_t, Half)>>
        Lerp(a, b, w) == FAdd(a, FMul(FSub(b, a), w))
        BarryGoldman(from, to, pre, post) ==
          Lerp(Lerp(Lerp(pre, from, W[1]), Lerp(from, to, W[2]), W[4]),
               Lerp(Lerp(from, to, W[2]), Lerp(to, post, W[3]), W[5]),
               W[6])
        Ln(a, b) == log(QMul(QInverse(a), b))
        Pass(space, ln_from, ln_to, ln_pre, ln_post) ==
          QMul(space,
               exp(Quat(BarryGoldman(ln_from.x, ln_to.x, ln_pre.x, ln_post.x),
                        BarryGoldman(ln_from.y, ln_to.y, ln_pre.y, ln_post.y),
                        BarryGoldman(ln_from.z, ln_to.z, ln_pre.z, ln_post.z),
                        0)))
        Zero == Quat(0, 0, 0, 0)
    IN  /\ \A i \in 1..6 : IsFinite(W[i])
        /\ timed.q1 = Pass(timed.from_q, Zero, Ln(timed.from_q, timed.to_q),
                           Ln(timed.from_q, timed.pre_q),
                           Ln(timed.from_q, timed.post_q))
        /\ timed.q2 = Pass(timed.to_q, Ln(timed.to_q, timed.from_q), Zero,
                           Ln(timed.to_q, timed.pre_q),
                           Ln(timed.to_q, timed.post_q))

\* pre_t = 0 and post_t = to_t: the divisors -pre_t and post_t - to_t are
\* zero, the other four are not, and the interpolation still moves away from
\* the first key with finite components
C30_Witness ==
  /\ pc = "cubic_in_time"
  /\ times = [b_t |-> One, pre_a_t |-> 0, post_b_t |-> One]
  /\ \A k \in QAxes : IsFinite(timed.q1[k]) /\ IsFinite(timed.result[k])
  /\ timed.q1 # timed.from_q
  /\ timed.result # timed.from_q
====
